---- MODULE Spec2Model ----
(***************************************************************************)
(* The chunk request retry engine of the curve client: ClientClosure::Run  *)
(* and the handlers it calls (chunk_closure.cpp), acting on the            *)
(* RequestClosure of a request (request_closure.h).                        *)
(*                                                                         *)
(* A request is a record; every handler of the source is an operator from  *)
(* a "world" (the request record, the shared in-flight counter and the     *)
(* shared metadata cache) to the world after the handler, so that          *)
(* ClientClosure::Run is the composition of its handlers in the order of   *)
(* the source.                                                             *)
(*                                                                         *)
(* The module also holds the two backoff calculators as functions of the   *)
(* configuration (BackoffSpec), the InflightThrottle of the metaserver     *)
(* (ThrottleSpec) and the curve request executor of nebd (ExecutorSpec).   *)
(***************************************************************************)
EXTENDS Integers, Sequences, FiniteSets, TLC

(***************************************************************************)
(* Configuration (FailureRequestOption failReqOpt_, BackoffParam).  The    *)
(* values are supplied by the caller of the library; the ones here are     *)
(* small so that every branch is reached.                                  *)
(***************************************************************************)
chunkserverOPMaxRetry == 3
chunkserverRPCTimeoutMS == 2
chunkserverMaxRPCTimeoutMS == 5
chunkserverMinRetryTimesForceTimeoutBackoff == 2
maxTimeoutPow == 2
chunkserverOPRetryIntervalUS == 10
chunkserverMaxRetrySleepIntervalUS == 30
maxOverloadPow == 2
\* capacity of the in-flight counter the inflight token belongs to
MaxInflight == 2
\* rawlength_ of the request
RawLength == 2

(***************************************************************************)
(* Widths.  uint64_t is WordBits wide and int is IntBits wide here: the    *)
(* arithmetic is the source's, the widths are scaled so that the values    *)
(* can be enumerated.  std::rand() yields 0 .. RAND_MAX.                   *)
(***************************************************************************)
WordBits == 7
IntBits == 5
RAND_MAX == 4

Requests == {"r1"}

OpTypes == {"WRITE", "READ", "READ_SNAP", "DELETE_SNAP", "GET_CHUNK_INFO",
            "CREATE_CLONE", "RECOVER_CHUNK"}

(***************************************************************************)
(* curve::chunkserver::CHUNK_OP_STATUS, the application status of a reply. *)
(***************************************************************************)
CHUNK_OP_STATUS_SUCCESS == 0
CHUNK_OP_STATUS_REDIRECTED == 1
CHUNK_OP_STATUS_INVALID_REQUEST == 4
CHUNK_OP_STATUS_CHUNK_NOTEXIST == 5
CHUNK_OP_STATUS_COPYSET_NOTEXIST == 6
CHUNK_OP_STATUS_OVERLOAD == 8
CHUNK_OP_STATUS_BACKWARD == 9
CHUNK_OP_STATUS_CHUNK_EXIST == 10
CHUNK_OP_STATUS_EPOCH_TOO_OLD == 11
\* every value a reply can carry: the ones above, and 2, 3, 7, which no case
\* label of ClientClosure::Run names (its default: branch)
ResponseStatuses == 0 .. 11

(***************************************************************************)
(* cntl_->ErrorCode(): 0 when the transport succeeded (cntl_->Failed() is  *)
(* false), else the transport's error.  111 (connection refused) and 112   *)
(* (host down) stand for the transport errors that are not timeouts.       *)
(***************************************************************************)
ERPCTIMEDOUT == 1008
ETIMEDOUT == 110
TransportErrors == {ERPCTIMEDOUT, ETIMEDOUT, 111, 112}

\* cntl_->response_attachment() of a read reply
Attachments == {<<1>>, <<1, 1>>}
\* the chunksn list of a GetChunkInfo reply
ChunkSnLists == {<<>>, <<1>>}
\* reqCtx_->seq_ as sent first, and what MetaCache::GetLatestFileSn() returns
InitialSn == 1
LatestSns == {InitialSn, InitialSn + 1}

\* ChunkServerID of the peers of the copyset; 0 is no chunkserver
ChunkServers == {1, 2, 3}
\* UnstableState (GetCurrentUnstableState)
UnstableStates == {"NoUnstable", "ChunkServerUnstable", "ServerUnstable"}

VARIABLES
    req,            \* req[r]: RequestClosure and RequestContext of request r
    inflightCount,  \* the in-flight counter the inflight tokens are units of
    metaCache,      \* the metadata cache: the leader of the copyset
    calc,           \* BackoffSpec: a configuration and the last call made
    throttle,       \* ThrottleSpec: an InflightThrottle
    executor        \* ExecutorSpec: the last call of the request executor

vars == <<req, inflightCount, metaCache, calc, throttle, executor>>

Min(a, b) == IF a < b THEN a ELSE b
Max(a, b) == IF a > b THEN a ELSE b

RECURSIVE Pow2(_)
Pow2(n) == IF n = 0 THEN 1 ELSE 2 * Pow2(n - 1)

(***************************************************************************)
(* RequestClosure as constructed, with the RequestContext it points to.    *)
(*   pc          where the request is: "created", "ready" (token held),    *)
(*               "inflight" (handed to the transport), "done" (done_->Run  *)
(*               has run), "returned" (a handler returned without either), *)
(*               "sleeping" (the handler has yielded in bthread_usleep     *)
(*               before SendRetryRequest)                                  *)
(*   attempts    number of attempts handed to the transport so far         *)
(*   outstanding attempts handed to the transport whose completion         *)
(*               handler has not run                                       *)
(*   closures    attempts whose ClientClosure and brpc::Controller are     *)
(*               allocated and not yet deleted                             *)
(*   freed       number of ClientClosure/brpc::Controller pairs deleted    *)
(*   status_, cntlstatus_, chunkserverID_, retryDirectly_                  *)
(*               of the ClientClosure of the latest attempt                *)
(*   doneRuns    number of calls of done_->Run()                           *)
(*   sleepUS     what the handler that ran last passed to bthread_usleep   *)
(*               (0: no call)                                              *)
(*   leaderMayChange, elapsedOver                                          *)
(*               what IsLeaderMayChange and the clock answered the handler *)
(*               that ran last                                             *)
(*   hint, updated, refreshed                                              *)
(*               what the handler that ran last learned about the leader:  *)
(*               the peer a redirect named (0: none), whether UpdateLeader *)
(*               took it, the leader GetLeader(refresh) returned (0: none) *)
(*   slowRequestNum  calls of IncremSlowRequestNum for this request        *)
(*   calls       the calls the handler that ran last made to the unstable  *)
(*               helper, the metadata cache and the metrics, and the       *)
(*               handlers ClientClosure::Run entered, in order             *)
(*   unstableState, setServerUnstableRet, reread, latestSn                 *)
(*               what GetCurrentUnstableState ("none": not asked),         *)
(*               SetServerUnstable, GetLeader without refresh (the leader, *)
(*               0: none) and GetLatestFileSn (0: not asked) answered the  *)
(*               handler that ran last                                     *)
(*   writeData, offset                                                     *)
(*               writeData_ and offset_ of the RequestContext              *)
(*   sent        the arguments SendRetryRequest passed to the transport    *)
(*               client last                                               *)
(***************************************************************************)
NewRequest(op) ==
    [optype |-> op,
     pc |-> "created",
     slowRequest |-> FALSE,
     ownInflight |-> FALSE,
     errcode |-> -1,
     retryTimes |-> 0,
     nextTimeoutMS |-> 0,
     seq |-> InitialSn,
     readData |-> <<>>,
     chunkSn |-> <<>>,
     status_ |-> -1,
     cntlstatus_ |-> 0,
     chunkserverID_ |-> 0,
     retryDirectly_ |-> FALSE,
     attempts |-> 0,
     outstanding |-> {},
     closures |-> {},
     freed |-> 0,
     doneRuns |-> 0,
     tokenReleases |-> 0,
     sleepUS |-> 0,
     leaderMayChange |-> FALSE,
     elapsedOver |-> FALSE,
     hint |-> 0,
     updated |-> FALSE,
     refreshed |-> 0,
     slowRequestNum |-> 0,
     calls |-> <<>>,
     unstableState |-> "none",
     setServerUnstableRet |-> 0,
     reread |-> 0,
     latestSn |-> 0,
     writeData |-> <<1, 1>>,
     offset |-> 0,
     sent |-> [seq |-> 0, writeData |-> <<>>, offset |-> 0, length |-> 0]]

\* the variables of the other specifications, at rest
NoCall ==
    [fn |-> "none", base |-> 0, max |-> 0, pow |-> 0, n |-> 0,
     s |-> 0, jittered |-> 0, ret |-> 0, retNext |-> 0, retAtMaxPow |-> 0]

NoThrottle ==
    [inflightRequestCount_ |-> 0, maxInflightRequest_ |-> 0,
     called |-> "none", ret |-> FALSE, incs |-> 0, decs |-> 0,
     unmatched |-> FALSE]

NoExecutorCall ==
    [op |-> "none", instance |-> "none", fd |-> 0, fileName |-> "",
     clientRet |-> "none", clientCalls |-> 0, ret |-> 0]

Init ==
    /\ req \in [Requests -> {NewRequest(op) : op \in OpTypes}]
    /\ inflightCount \in 0 .. MaxInflight - 1
    /\ metaCache = [leader |-> 1]
    /\ calc = NoCall
    /\ throttle = NoThrottle
    /\ executor = NoExecutorCall

(***************************************************************************)
(* A world is the request a handler works on, the shared counter and the   *)
(* shared metadata cache.                                                  *)
(***************************************************************************)
World(q, n, c) == [q |-> q, inflight |-> n, cache |-> c]

\* What one completed attempt brings: the transport's verdict (cntlErr), the
\* reply (status, attachment, chunksn; status -1 when no reply arrived) and
\* the answers of the collaborators the handler asks: GetLatestFileSn
\* (latestSn, asked on BACKWARD), IsLeaderMayChange (asked after a timeout)
\* and the clock (slowNow: now - CreatedMS() exceeds the slow threshold,
\* asked on a retry).  An answer nobody asks for is left at its default.
Reply(cntlErr, status, attachment, chunksn, latestSn, leaderMayChange, slowNow) ==
    [cntlErr |-> cntlErr, status |-> status, attachment |-> attachment,
     chunksn |-> chunksn, latestSn |-> latestSn,
     leaderMayChange |-> leaderMayChange, slowNow |-> slowNow]

RetryStatuses ==
    ResponseStatuses \ {CHUNK_OP_STATUS_SUCCESS, CHUNK_OP_STATUS_CHUNK_NOTEXIST,
                        CHUNK_OP_STATUS_INVALID_REQUEST, CHUNK_OP_STATUS_BACKWARD,
                        CHUNK_OP_STATUS_CHUNK_EXIST, CHUNK_OP_STATUS_EPOCH_TOO_OLD}

Replies ==
    {Reply(e, -1, <<>>, <<>>, InitialSn, l, s) :
        e \in {ERPCTIMEDOUT, ETIMEDOUT}, l \in BOOLEAN, s \in BOOLEAN}
    \cup {Reply(e, -1, <<>>, <<>>, InitialSn, FALSE, s) :
        e \in TransportErrors \ {ERPCTIMEDOUT, ETIMEDOUT}, s \in BOOLEAN}
    \cup {Reply(0, CHUNK_OP_STATUS_SUCCESS, d, c, InitialSn, FALSE, FALSE) :
        d \in Attachments, c \in ChunkSnLists}
    \cup {Reply(0, CHUNK_OP_STATUS_BACKWARD, <<>>, <<>>, n, FALSE, s) :
        n \in LatestSns, s \in BOOLEAN}
    \cup {Reply(0, st, <<>>, <<>>, InitialSn, FALSE, s) :
        st \in RetryStatuses, s \in BOOLEAN}
    \cup {Reply(0, st, <<>>, <<>>, InitialSn, FALSE, FALSE) :
        st \in {CHUNK_OP_STATUS_CHUNK_NOTEXIST, CHUNK_OP_STATUS_INVALID_REQUEST,
                CHUNK_OP_STATUS_CHUNK_EXIST, CHUNK_OP_STATUS_EPOCH_TOO_OLD}}

(***************************************************************************)
(* What the metadata cache, std::rand and the scheduler answer a handler:  *)
(*   unstableState         GetCurrentUnstableState                         *)
(*   setServerUnstableRet  SetServerUnstable(ip)                           *)
(*   hasRedirect, redirect has_redirect() and the peer redirect() names    *)
(*                         (0: a text PeerAddr::Parse rejects)             *)
(*   updateLeaderRet       UpdateLeader                                    *)
(*   getLeaderRet          GetLeader without refresh                       *)
(*   authority             the leader GetLeader(refresh = true) obtains    *)
(*                         (0: the call returns -1)                        *)
(*   rand                  std::rand()                                     *)
(*   yields                the handler is suspended before it re-sends,    *)
(*                         so that other closures run in between           *)
(***************************************************************************)
Answer(unstableState, setServerUnstableRet, hasRedirect, redirect, updateLeaderRet, getLeaderRet, authority, rand, yields) ==
    [unstableState |-> unstableState,
     setServerUnstableRet |-> setServerUnstableRet,
     hasRedirect |-> hasRedirect, redirect |-> redirect,
     updateLeaderRet |-> updateLeaderRet, getLeaderRet |-> getLeaderRet,
     authority |-> authority, rand |-> rand, yields |-> yields]

\* a chunkserver that is marked unstable, a redirect without a peer and an
\* authority that cannot be reached: the leader stays what it is
StableAnswer(rand) ==
    Answer("ChunkServerUnstable", 0, FALSE, 0, -1, -1, 0, rand, FALSE)

\* the replies of a copyset whose leader does not change
StableReplies ==
    {rep @@ StableAnswer(0) : rep \in Replies}
    \cup {rep @@ StableAnswer(RAND_MAX) :
            rep \in {x \in Replies : x.status = CHUNK_OP_STATUS_OVERLOAD}}

(***************************************************************************)
(* RequestClosure (request_closure.h)                                      *)
(***************************************************************************)
\* the handler that runs on q makes the call, or enters the handler, name
Called(q, name) == [q EXCEPT !.calls = Append(@, name)]

SetFailed(q, errorCode) == [q EXCEPT !.errcode = errorCode]

\* variant: the count is raised twice per call
IncremRetriedTimes_Twice(q) == [q EXCEPT !.retryTimes = @ + 2]

IncremRetriedTimes(q) == [q EXCEPT !.retryTimes = @ + 1]

SetNextTimeOutMS(q, timeout) == [q EXCEPT !.nextTimeoutMS = timeout]

MarkAsSlowRequest(q) == [q EXCEPT !.slowRequest = TRUE]

\* the token is taken when the counter has room, and the closure then owes
\* one decrement
GetInflightRPCToken(w) ==
    World([w.q EXCEPT !.ownInflight = TRUE, !.pc = "ready"], w.inflight + 1,
          w.cache)

\* gives the token back if the closure owes one
ReleaseInflightRPCToken(w) ==
    IF w.q.ownInflight
    THEN World([w.q EXCEPT !.ownInflight = FALSE, !.tokenReleases = @ + 1],
               w.inflight - 1, w.cache)
    ELSE w

\* done_->Run(): the completion continuation of the request
RequestClosureRun(w) ==
    LET v == ReleaseInflightRPCToken(w)
    IN  World([v.q EXCEPT !.doneRuns = @ + 1, !.pc = "done"], v.inflight,
              v.cache)

(***************************************************************************)
(* The transport client behind SendRetryRequest (client_->WriteChunk, ...):*)
(* counts the attempt on the closure, asks the metadata cache for the      *)
(* leader of the copyset and hands a new ClientClosure with its controller *)
(* to the transport, addressed to that leader.                             *)
(***************************************************************************)
Dispatch(w) ==
    LET n == w.q.attempts + 1
    IN  World([IncremRetriedTimes(w.q) EXCEPT !.attempts = n,
                                              !.outstanding = @ \cup {n},
                                              !.closures = @ \cup {n},
                                              !.chunkserverID_ = w.cache.leader,
                                              !.pc = "inflight"],
              w.inflight, w.cache)

(***************************************************************************)
(* Machine arithmetic of the backoff calculators.                          *)
(***************************************************************************)
\* a value stored in a uint64_t
Wrap(x) == x % Pow2(WordBits)

\* (1 << k) converted to uint64_t.  1 is an int: the shift sets the sign bit
\* for k = IntBits - 1, and the conversion extends it; for k >= IntBits the
\* shift is undefined and the build yields undefinedShift
ShiftOne(k, undefinedShift) ==
    IF k < IntBits - 1 THEN Pow2(k)
    ELSE IF k = IntBits - 1 THEN Pow2(WordBits) - Pow2(k)
    ELSE undefinedShift

\* what an undefined shift is seen to yield: the shift by k modulo the width
\* (1 for the width itself) and 0
UndefinedShifts == {0, 1}

(***************************************************************************)
(* ClientClosure (chunk_closure.cpp)                                       *)
(***************************************************************************)
\* TimeoutBackOff under a configuration
TimeoutBackOffOf(rpcTimeoutMS, maxRPCTimeoutMS, maxPow, currentRetryTimes, undefinedShift) ==
    LET curpowTime == Min(currentRetryTimes, maxPow)
        nextTimeout == Wrap(rpcTimeoutMS * ShiftOne(curpowTime, undefinedShift))
    IN  Max(Min(nextTimeout, maxRPCTimeoutMS), rpcTimeoutMS)

\* with failReqOpt_ and backoffParam_ of this model no shift is undefined
TimeoutBackOff(currentRetryTimes) ==
    TimeoutBackOffOf(chunkserverRPCTimeoutMS, chunkserverMaxRPCTimeoutMS,
                     maxTimeoutPow, currentRetryTimes, 0)

\* nextsleeptime of OverLoadBackOff before the jitter
OverLoadSleepOf(opRetryIntervalUS, maxPow, currentRetryTimes, undefinedShift) ==
    LET curpowTime == Min(currentRetryTimes, maxPow)
    IN  Wrap(opRetryIntervalUS * ShiftOne(curpowTime, undefinedShift))

\* nextsleeptime of OverLoadBackOff after the jitter, before std::min
OverLoadJitteredOf(opRetryIntervalUS, maxPow, currentRetryTimes, undefinedShift, rand) ==
    LET nextsleeptime == OverLoadSleepOf(opRetryIntervalUS, maxPow,
                                         currentRetryTimes, undefinedShift)
        random_time == rand % (nextsleeptime \div 5 + 1)
        jitter == Wrap(random_time - nextsleeptime \div 10)
    IN  Wrap(nextsleeptime + jitter)

\* OverLoadBackOff under a configuration
OverLoadBackOffOf(opRetryIntervalUS, maxRetrySleepIntervalUS, maxPow, currentRetryTimes, undefinedShift, rand) ==
    LET nextsleeptime == OverLoadJitteredOf(opRetryIntervalUS, maxPow,
                                            currentRetryTimes, undefinedShift,
                                            rand)
    IN  Max(Min(nextsleeptime, maxRetrySleepIntervalUS), opRetryIntervalUS)

OverLoadBackOff(currentRetryTimes, rand) ==
    OverLoadBackOffOf(chunkserverOPRetryIntervalUS,
                      chunkserverMaxRetrySleepIntervalUS, maxOverloadPow,
                      currentRetryTimes, 0, rand)

IsTimeout(cntlstatus) == cntlstatus = ERPCTIMEDOUT \/ cntlstatus = ETIMEDOUT

\* bthread_usleep(us)
Usleep(q, us) == [q EXCEPT !.sleepUS = us]

\* variant: the timeout branch does not return and falls into the sleep
PreProcessBeforeRetry_NoReturn(q, in) ==
    IF IsTimeout(q.cntlstatus_)
    THEN Usleep([SetNextTimeOutMS(q, TimeoutBackOff(q.retryTimes))
                     EXCEPT !.leaderMayChange = in.leaderMayChange],
                IF q.retryDirectly_ THEN 0 ELSE chunkserverOPRetryIntervalUS)
    ELSE q

\* variant: the base timeout whenever the leader may change
PreProcessBeforeRetry_NoForce(q, in) ==
    IF IsTimeout(q.cntlstatus_)
    THEN [SetNextTimeOutMS(q, IF in.leaderMayChange
                              THEN chunkserverRPCTimeoutMS
                              ELSE TimeoutBackOff(q.retryTimes))
              EXCEPT !.leaderMayChange = in.leaderMayChange]
    ELSE q

\* variant: a retry that is not after a timeout goes back to the base timeout
PreProcessBeforeRetry_ResetTimeout(q, in) ==
    IF IsTimeout(q.cntlstatus_)
    THEN [SetNextTimeOutMS(q, IF /\ q.retryTimes
                                       < chunkserverMinRetryTimesForceTimeoutBackoff
                                  /\ in.leaderMayChange
                               THEN chunkserverRPCTimeoutMS
                               ELSE TimeoutBackOff(q.retryTimes))
              EXCEPT !.leaderMayChange = in.leaderMayChange]
    ELSE SetNextTimeOutMS(
             IF q.status_ = CHUNK_OP_STATUS_OVERLOAD
             THEN Usleep(q, OverLoadBackOff(q.retryTimes, in.rand))
             ELSE IF q.retryDirectly_
                  THEN q
                  ELSE Usleep(q, IF q.status_ = CHUNK_OP_STATUS_REDIRECTED
                                 THEN chunkserverOPRetryIntervalUS \div 10
                                 ELSE chunkserverOPRetryIntervalUS),
             chunkserverRPCTimeoutMS)

\* the request after PreProcessBeforeRetry(status_, cntlstatus_)
PreProcessBeforeRetry(q, in) ==
    IF IsTimeout(q.cntlstatus_)
    THEN LET retriedTimes == q.retryTimes
             nextTimeout ==
                 IF /\ retriedTimes < chunkserverMinRetryTimesForceTimeoutBackoff
                    /\ in.leaderMayChange
                 THEN chunkserverRPCTimeoutMS
                 ELSE TimeoutBackOff(retriedTimes)
         IN  [SetNextTimeOutMS(q, nextTimeout)
                  EXCEPT !.leaderMayChange = in.leaderMayChange]
    ELSE IF q.status_ = CHUNK_OP_STATUS_OVERLOAD
    THEN Usleep(q, OverLoadBackOff(q.retryTimes, in.rand))
    ELSE LET nextSleepUS ==
                 IF ~q.retryDirectly_
                 THEN IF q.status_ = CHUNK_OP_STATUS_REDIRECTED
                      THEN chunkserverOPRetryIntervalUS \div 10
                      ELSE chunkserverOPRetryIntervalUS
                 ELSE 0
         IN  IF nextSleepUS # 0 THEN Usleep(q, nextSleepUS) ELSE q

\* variant: the request is handed to the transport twice
SendRetryRequest_Twice(w) ==
    Dispatch(Dispatch([w EXCEPT !.q.sent = [seq |-> w.q.seq,
                                            writeData |-> w.q.writeData,
                                            offset |-> w.q.offset,
                                            length |-> RawLength]]))

\* client_->WriteChunk(..., seq_, writeData_, offset_, rawlength_, ...) and
\* the like: the arguments come from the RequestContext
SendRetryRequest(w) ==
    Dispatch([w EXCEPT !.q.sent = [seq |-> w.q.seq,
                                   writeData |-> w.q.writeData,
                                   offset |-> w.q.offset,
                                   length |-> RawLength]])

\* variant: retryDirectly_ is set when GetLeader fails as well
RefreshLeader_SetOnFailure(w, in) ==
    LET c == [w EXCEPT !.q = Called(w.q, "GetLeader(refresh)")]
    IN  IF in.authority = 0
        THEN [c EXCEPT !.q.retryDirectly_ = TRUE]
        ELSE [c EXCEPT !.cache.leader = in.authority,
                       !.q.refreshed = in.authority,
                       !.q.retryDirectly_ = (in.authority # w.q.chunkserverID_)]

\* GetLeader(lpid, cpid, &leaderId, &leaderAddr, true): on success the cache
\* holds the leader the authority names
RefreshLeader(w, in) ==
    LET c == [w EXCEPT !.q = Called(w.q, "GetLeader(refresh)")]
    IN  IF in.authority = 0
        THEN c
        ELSE [c EXCEPT !.cache.leader = in.authority,
                       !.q.refreshed = in.authority,
                       !.q.retryDirectly_ = (in.authority # w.q.chunkserverID_)]

\* the return value of UpdateLeaderWithRedirectInfo
UpdateLeaderWithRedirectInfoRet(in) ==
    IF in.redirect # 0 /\ in.updateLeaderRet = 0 /\ in.getLeaderRet = 0
    THEN 0
    ELSE -1

\* variant: the hint is parsed but not installed in the cache
UpdateLeaderWithRedirectInfo_NoUpdate(w, in) ==
    IF in.redirect = 0 \/ in.updateLeaderRet # 0 \/ in.getLeaderRet # 0
    THEN w
    ELSE [w EXCEPT !.q.updated = TRUE,
                   !.q.reread = w.cache.leader,
                   !.q.calls = @ \o <<"UpdateLeader", "GetLeader">>,
                   !.q.retryDirectly_ = (w.cache.leader # w.q.chunkserverID_)]

\* variant: the leader is not read back after UpdateLeader
UpdateLeaderWithRedirectInfo_NoReread(w, in) ==
    IF in.redirect = 0
    THEN w
    ELSE LET c == [w EXCEPT !.q = Called(w.q, "UpdateLeader")]
         IN  IF in.updateLeaderRet # 0
             THEN c
             ELSE [c EXCEPT !.cache.leader = in.redirect, !.q.updated = TRUE]

\* the world after UpdateLeaderWithRedirectInfo(redirect())
UpdateLeaderWithRedirectInfo(w, in) ==
    IF in.redirect = 0
    THEN w
    ELSE LET c == [w EXCEPT !.q = Called(w.q, "UpdateLeader")]
         IN  IF in.updateLeaderRet # 0
             THEN c
             ELSE LET u == [c EXCEPT !.cache.leader = in.redirect,
                                     !.q.updated = TRUE,
                                     !.q.calls = Append(@, "GetLeader")]
                  IN  IF in.getLeaderRet # 0
                      THEN u
                      ELSE [u EXCEPT
                              !.q.reread = u.cache.leader,
                              !.q.retryDirectly_ =
                                  (u.cache.leader # u.q.chunkserverID_)]

\* OnRedirected of ClientClosure, and of GetChunkInfoClosure, which reads
\* the hint of its own reply
OnRedirected(w, in) ==
    LET h == [w EXCEPT !.q.hint = IF in.hasRedirect THEN in.redirect ELSE 0,
                       !.q.calls = Append(@, "OnRedirected")]
    IN  IF in.hasRedirect
        THEN LET u == UpdateLeaderWithRedirectInfo(h, in)
             IN  IF UpdateLeaderWithRedirectInfoRet(in) = 0
                 THEN u
                 ELSE RefreshLeader(u, in)
        ELSE RefreshLeader(h, in)

OnCopysetNotExist(w, in) ==
    RefreshLeader([w EXCEPT !.q = Called(w.q, "OnCopysetNotExist")], in)

\* SetServerUnstable and SetChunkserverUnstable mark peers in the cache and
\* leave its leader as it is
\* variant: a chunkserver of an unstable server is marked as well
ProcessUnstableState_MarkBoth(w, in) ==
    LET s == [w EXCEPT !.q.unstableState = in.unstableState]
    IN  CASE in.unstableState = "ServerUnstable" ->
                 [s EXCEPT !.q.setServerUnstableRet = in.setServerUnstableRet,
                           !.q.calls = @ \o <<"SetServerUnstable",
                                              "SetChunkserverUnstable">>]
          [] in.unstableState = "ChunkServerUnstable" ->
                 [s EXCEPT !.q = Called(s.q, "SetChunkserverUnstable")]
          [] in.unstableState = "NoUnstable" -> RefreshLeader(s, in)
          [] OTHER -> s

ProcessUnstableState(w, in) ==
    LET s == [w EXCEPT !.q.unstableState = in.unstableState]
    IN  CASE in.unstableState = "ServerUnstable" ->
                 LET m == [s EXCEPT
                             !.q.setServerUnstableRet = in.setServerUnstableRet,
                             !.q.calls = Append(@, "SetServerUnstable")]
                 IN  IF in.setServerUnstableRet # 0
                     THEN [m EXCEPT !.q = Called(m.q, "SetChunkserverUnstable")]
                     ELSE m
          [] in.unstableState = "ChunkServerUnstable" ->
                 [s EXCEPT !.q = Called(s.q, "SetChunkserverUnstable")]
          [] in.unstableState = "NoUnstable" -> RefreshLeader(s, in)
          [] OTHER -> s

\* variant: a connection timeout is counted as well
CountTimeout_AnyTimeout(q) ==
    IF IsTimeout(q.cntlstatus_)
    THEN Called(Called(q, "IncreTimeout"), "IncremTimeOutRPCCount")
    ELSE q

\* the timeout count of the chunkserver and the timeout-RPC metric
CountTimeout(q) ==
    IF q.cntlstatus_ = ERPCTIMEDOUT
    THEN Called(Called(q, "IncreTimeout"), "IncremTimeOutRPCCount")
    ELSE q

\* variant: status_ is not set from the controller
OnRpcFailed_NoStatus(w, in) ==
    ProcessUnstableState(
        [w EXCEPT !.q = CountTimeout(Called(w.q, "OnRpcFailed"))], in)

OnRpcFailed(w, in) ==
    ProcessUnstableState(
        [w EXCEPT !.q = CountTimeout([Called(w.q, "OnRpcFailed")
                                          EXCEPT !.status_ = in.cntlErr])],
        in)

\* variant: the latency is recorded and the QPS metric is not
ClientClosureOnSuccess_NoQPS(q) ==
    Called(SetFailed(Called(q, "OnSuccess"), 0), "LatencyRecord")

ClientClosureOnSuccess(q) ==
    Called(Called(SetFailed(Called(q, "OnSuccess"), 0), "LatencyRecord"),
           "IncremRPCQPSCount")

\* OnSuccess of the closure of the request's operation
OnSuccess(q, in) ==
    LET b == ClientClosureOnSuccess(q)
    IN  CASE q.optype \in {"READ", "READ_SNAP"} ->
                 [b EXCEPT !.readData = in.attachment]
          [] q.optype = "GET_CHUNK_INFO" ->
                 [b EXCEPT !.chunkSn = @ \o in.chunksn]
          [] OTHER -> b

\* variant: reserve in place of resize, the length stays
Resize_Reserve(data, n) == data

\* readData_.resize(rawlength_, 0): cut to n bytes, or padded with zeros
Resize(data, n) ==
    [i \in 1 .. n |-> IF i <= Len(data) THEN data[i] ELSE 0]

ClientClosureOnChunkNotExist(q) ==
    Called(Called(SetFailed(Called(q, "OnChunkNotExist"), q.status_),
                  "LatencyRecord"),
           "IncremRPCQPSCount")

\* variant: ReadChunkClosure does not override OnChunkNotExist
OnChunkNotExist_NoHole(q) == ClientClosureOnChunkNotExist(q)

OnChunkNotExist(q) ==
    LET b == ClientClosureOnChunkNotExist(q)
    IN  IF q.optype = "READ"
        THEN [SetFailed(b, 0) EXCEPT !.readData = Resize(@, RawLength)]
        ELSE b

OnChunkExist(q) == SetFailed(Called(q, "OnChunkExist"), q.status_)

OnEpochTooOld(q) == SetFailed(Called(q, "OnEpochTooOld"), q.status_)

OnInvalidRequest(q) ==
    Called(SetFailed(Called(q, "OnInvalidRequest"), q.status_),
           "IncremFailRPCCount")

\* variant: the latest sequence number is read and not stored
OnBackward_NoStore(q, in) ==
    [Called(Called(q, "OnBackward"), "GetLatestFileSn")
         EXCEPT !.latestSn = in.latestSn]

OnBackward(q, in) ==
    [Called(Called(q, "OnBackward"), "GetLatestFileSn")
         EXCEPT !.latestSn = in.latestSn, !.seq = in.latestSn]

\* variant: CHUNK_EXIST has no case label and falls into default:
NeedRetry_ChunkExist(optype, cntlErr, status) ==
    \/ cntlErr # 0
    \/ status \in {CHUNK_OP_STATUS_REDIRECTED, CHUNK_OP_STATUS_COPYSET_NOTEXIST}
    \/ status = CHUNK_OP_STATUS_BACKWARD /\ optype = "WRITE"
    \/ status \notin {CHUNK_OP_STATUS_SUCCESS, CHUNK_OP_STATUS_REDIRECTED,
                      CHUNK_OP_STATUS_COPYSET_NOTEXIST,
                      CHUNK_OP_STATUS_CHUNK_NOTEXIST,
                      CHUNK_OP_STATUS_INVALID_REQUEST,
                      CHUNK_OP_STATUS_BACKWARD,
                      CHUNK_OP_STATUS_EPOCH_TOO_OLD}

\* needRetry at the end of the switch of ClientClosure::Run
NeedRetry(optype, cntlErr, status) ==
    \/ cntlErr # 0
    \/ status \in {CHUNK_OP_STATUS_REDIRECTED, CHUNK_OP_STATUS_COPYSET_NOTEXIST}
    \/ status = CHUNK_OP_STATUS_BACKWARD /\ optype = "WRITE"
    \/ status \notin {CHUNK_OP_STATUS_SUCCESS, CHUNK_OP_STATUS_REDIRECTED,
                      CHUNK_OP_STATUS_COPYSET_NOTEXIST,
                      CHUNK_OP_STATUS_CHUNK_NOTEXIST,
                      CHUNK_OP_STATUS_INVALID_REQUEST,
                      CHUNK_OP_STATUS_BACKWARD, CHUNK_OP_STATUS_CHUNK_EXIST,
                      CHUNK_OP_STATUS_EPOCH_TOO_OLD}

\* variant: the default: branch refreshes the leader
OnOtherStatus_Refresh(w, in) == RefreshLeader(w, in)

\* default: of the switch (OVERLOAD and the values without a case label):
\* needRetry is set and no handler is called
OnOtherStatus(w, in) == w

\* the world after the outcome handler the switch selects
OnStatus(w, in) ==
    LET q == w.q
    IN  CASE q.status_ = CHUNK_OP_STATUS_SUCCESS ->
                 [w EXCEPT !.q = OnSuccess(q, in)]
          [] q.status_ = CHUNK_OP_STATUS_REDIRECTED ->
                 OnRedirected(
                     [w EXCEPT !.q = Called(q, "IncremRedirectRPCCount")], in)
          [] q.status_ = CHUNK_OP_STATUS_COPYSET_NOTEXIST ->
                 OnCopysetNotExist(w, in)
          [] q.status_ = CHUNK_OP_STATUS_CHUNK_NOTEXIST ->
                 [w EXCEPT !.q = OnChunkNotExist(q)]
          [] q.status_ = CHUNK_OP_STATUS_INVALID_REQUEST ->
                 [w EXCEPT !.q = OnInvalidRequest(q)]
          [] q.status_ = CHUNK_OP_STATUS_BACKWARD ->
                 IF q.optype = "WRITE"
                 THEN [w EXCEPT !.q = OnBackward(q, in)]
                 ELSE w
          [] q.status_ = CHUNK_OP_STATUS_CHUNK_EXIST ->
                 [w EXCEPT !.q = OnChunkExist(q)]
          [] q.status_ = CHUNK_OP_STATUS_EPOCH_TOO_OLD ->
                 [w EXCEPT !.q = OnEpochTooOld(q)]
          [] OTHER -> OnOtherStatus(w, in)

\* variant: ClearTimeout is called after the outcome handler
OnReply_ClearLast(w, in) ==
    LET h == OnStatus([w EXCEPT !.q.status_ = in.status], in)
    IN  [h EXCEPT !.q = Called(h.q, "ClearTimeout")]

\* the transport succeeded: ClearTimeout, status_ = GetResponseStatus() and
\* the switch
OnReply(w, in) ==
    OnStatus([w EXCEPT !.q = [Called(w.q, "ClearTimeout")
                                  EXCEPT !.status_ = in.status]],
             in)

\* variant: > in place of >=
RetryExhausted_OffByOne(retriedTimes) == retriedTimes > chunkserverOPMaxRetry

\* GetRetriedTimes() >= failReqOpt_.chunkserverOPMaxRetry
RetryExhausted(retriedTimes) == retriedTimes >= chunkserverOPMaxRetry

\* MetricHelper::IncremSlowRequestNum(fileMetric_)
IncremSlowRequestNum(q) == [q EXCEPT !.slowRequestNum = @ + 1]

\* variant: the slow-request test does not look at IsSlowRequest()
SlowRequestCheck_EveryTime(q, in) ==
    LET c == [q EXCEPT !.elapsedOver = in.slowNow]
    IN  IF in.slowNow
        THEN IncremSlowRequestNum(MarkAsSlowRequest(c))
        ELSE c

\* the slow-request test of OnRetry
SlowRequestCheck(q, in) ==
    LET c == [q EXCEPT !.elapsedOver = in.slowNow]
    IN  IF ~q.slowRequest /\ in.slowNow
        THEN IncremSlowRequestNum(MarkAsSlowRequest(c))
        ELSE c

\* the slow-request mark, PreProcessBeforeRetry and SendRetryRequest; a
\* handler that yields re-sends when it is resumed
OnRetryResend(w, in) ==
    LET p == [w EXCEPT
                !.q = PreProcessBeforeRetry(SlowRequestCheck(w.q, in), in)]
    IN  IF in.yields
        THEN [p EXCEPT !.q.pc = "sleeping"]
        ELSE SendRetryRequest(p)

\* variant: no return after done_->Run() in the exhausted branch
OnRetry_NoReturn(w, in) ==
    LET m == [w EXCEPT !.q = Called(Called(w.q, "OnRetry"),
                                    "IncremFailRPCCount")]
    IN  IF RetryExhausted(m.q.retryTimes)
        THEN OnRetryResend(
                 RequestClosureRun(
                     [m EXCEPT !.q = SetFailed(m.q, m.q.status_)]),
                 in)
        ELSE OnRetryResend(m, in)

\* variant: the failed-RPC metric is recorded after the retry budget test
OnRetry_CountAfterTest(w, in) ==
    LET m == [w EXCEPT !.q = Called(w.q, "OnRetry")]
    IN  IF RetryExhausted(m.q.retryTimes)
        THEN RequestClosureRun([m EXCEPT !.q = SetFailed(m.q, m.q.status_)])
        ELSE OnRetryResend(
                 [m EXCEPT !.q = Called(m.q, "IncremFailRPCCount")], in)

OnRetry(w, in) ==
    LET m == [w EXCEPT !.q = Called(Called(w.q, "OnRetry"),
                                    "IncremFailRPCCount")]
    IN  IF RetryExhausted(m.q.retryTimes)
        THEN RequestClosureRun([m EXCEPT !.q = SetFailed(m.q, m.q.status_)])
        ELSE OnRetryResend(m, in)

\* variants: the guard is never released, or released on every path
DoneGuardReleased_Never(needRetry) == FALSE

DoneGuardReleased_Always(needRetry) == TRUE

\* doneGuard.release() is called exactly on the retry path
DoneGuardReleased(needRetry) == needRetry

\* ClientClosure::Run of attempt a up to its return; its closure and
\* controller are deleted afterwards (ReleaseGuards)
ClientClosureRun(w, a, in) ==
    LET bound == [w EXCEPT !.q = [w.q EXCEPT !.outstanding = @ \ {a},
                                             !.pc = "returned",
                                             !.status_ = -1,
                                             !.cntlstatus_ = in.cntlErr,
                                             !.retryDirectly_ = FALSE,
                                             !.sleepUS = 0,
                                             !.leaderMayChange = FALSE,
                                             !.elapsedOver = FALSE,
                                             !.hint = 0,
                                             !.updated = FALSE,
                                             !.refreshed = 0,
                                             !.calls = <<>>,
                                             !.unstableState = "none",
                                             !.setServerUnstableRet = 0,
                                             !.reread = 0,
                                             !.latestSn = 0]]
        needRetry == NeedRetry(bound.q.optype, in.cntlErr, in.status)
        handled ==
            IF in.cntlErr # 0
            THEN OnRpcFailed(bound, in)
            ELSE OnReply(bound, in)
        retried == IF needRetry THEN OnRetry(handled, in) ELSE handled
    IN  IF DoneGuardReleased(needRetry)
        THEN retried
        ELSE RequestClosureRun(retried)

(***************************************************************************)
(* Actions of the engine                                                   *)
(***************************************************************************)
\* variant: the error code is kept in one place for all requests
Step_SharedErrcode(r, v) ==
    /\ req' = [o \in DOMAIN req |->
                  IF o = r THEN v.q ELSE [req[o] EXCEPT !.errcode = v.q.errcode]]
    /\ inflightCount' = v.inflight
    /\ metaCache' = v.cache
    /\ UNCHANGED <<calc, throttle, executor>>

\* request r, the counter and the cache become what world v holds
Step(r, v) ==
    \E x \in {v} :
        /\ req' = [req EXCEPT ![r] = x.q]
        /\ inflightCount' = x.inflight
        /\ metaCache' = x.cache
        /\ UNCHANGED <<calc, throttle, executor>>

\* the inflight token is taken before the request is first sent
AcquireToken(r) ==
    /\ req[r].pc = "created"
    /\ inflightCount < MaxInflight
    /\ Step(r, GetInflightRPCToken(World(req[r], inflightCount, metaCache)))

\* the first attempt goes to the transport
FirstDispatch(r) ==
    /\ req[r].pc = "ready"
    /\ Step(r, Dispatch(World(req[r], inflightCount, metaCache)))

\* an outstanding attempt completes and its ClientClosure::Run runs
Run(r) ==
    \E a \in req[r].outstanding, in \in StableReplies :
        Step(r, ClientClosureRun(World(req[r], inflightCount, metaCache), a, in))

\* variant: the closure and controller are deleted but stay registered
ReleaseGuards_Again(r) ==
    \E a \in req[r].closures \ req[r].outstanding :
        /\ req' = [req EXCEPT ![r].freed = @ + 1]
        /\ UNCHANGED <<inflightCount, metaCache, calc, throttle, executor>>

\* selfGuard and cntlGuard of an attempt whose Run has returned
ReleaseGuards(r) ==
    \E a \in req[r].closures \ req[r].outstanding :
        /\ req' = [req EXCEPT ![r].closures = @ \ {a}, ![r].freed = @ + 1]
        /\ UNCHANGED <<inflightCount, metaCache, calc, throttle, executor>>

\* tokens held by the closures of this model
OwnTokens == Cardinality({r \in Requests : req[r].ownInflight})

\* other requests of the same file take and return tokens
OtherGetToken ==
    /\ inflightCount < MaxInflight
    /\ inflightCount' = inflightCount + 1
    /\ UNCHANGED <<req, metaCache, calc, throttle, executor>>

OtherReleaseToken ==
    /\ inflightCount > OwnTokens
    /\ inflightCount' = inflightCount - 1
    /\ UNCHANGED <<req, metaCache, calc, throttle, executor>>

Next ==
    \/ \E r \in Requests : AcquireToken(r)
    \/ \E r \in Requests : FirstDispatch(r)
    \/ \E r \in Requests : Run(r)
    \/ \E r \in Requests : ReleaseGuards(r)
    \/ OtherGetToken
    \/ OtherReleaseToken

Spec == Init /\ [][Next]_vars

(***************************************************************************)
(* FairSpec: the transport completes every attempt it is handed.  One      *)
(* reply of each kind: the clock, IsLeaderMayChange and the payload of a   *)
(* reply do not decide whether the handler re-sends.                       *)
(***************************************************************************)
FairReplies ==
    {rep \in StableReplies :
        /\ ~rep.slowNow
        /\ ~rep.leaderMayChange
        /\ rep.rand = 0
        /\ rep.chunksn = <<>>
        /\ rep.latestSn = InitialSn}

\* an outstanding attempt completes and its ClientClosure::Run runs
RunFair(r) ==
    \E a \in req[r].outstanding, in \in FairReplies :
        Step(r, ClientClosureRun(World(req[r], inflightCount, metaCache), a, in))

FairNext ==
    \/ \E r \in Requests : AcquireToken(r)
    \/ \E r \in Requests : FirstDispatch(r)
    \/ \E r \in Requests : RunFair(r)
    \/ \E r \in Requests : ReleaseGuards(r)

FairSpec == Init /\ [][FairNext]_vars /\ \A r \in Requests : WF_vars(RunFair(r))

(***************************************************************************)
(* LeaderSpec: one request on a copyset whose leader changes.  The handler *)
(* yields before it re-sends, and completion handlers of other requests of *)
(* the copyset write the leader of the shared cache at any time.           *)
(***************************************************************************)
LeaderOpTypes == {"WRITE"}

\* what the unstable helper and the cache answer after a transport failure
UnstableAnswers ==
    {Answer("NoUnstable", 0, FALSE, 0, -1, -1, l, 0, TRUE) :
        l \in ChunkServers \cup {0}}
    \cup {Answer("ChunkServerUnstable", 0, FALSE, 0, -1, -1, 0, 0, TRUE)}
    \cup {Answer("ServerUnstable", ret, FALSE, 0, -1, -1, 0, 0, TRUE) :
            ret \in {0, -1}}

\* what a Redirected reply carries and the cache answers: no peer, a peer
\* that is taken and read back, or a failure on the way and the refresh
RedirectAnswers ==
    {Answer("NoUnstable", 0, FALSE, 0, -1, -1, l, 0, TRUE) :
        l \in ChunkServers \cup {0}}
    \cup {Answer("NoUnstable", 0, TRUE, h, 0, 0, 0, 0, TRUE) :
            h \in ChunkServers}
    \cup {Answer("NoUnstable", 0, TRUE, 0, -1, -1, l, 0, TRUE) :
            l \in ChunkServers \cup {0}}
    \cup {Answer("NoUnstable", 0, TRUE, h, -1, -1, l, 0, TRUE) :
            h \in ChunkServers, l \in ChunkServers \cup {0}}
    \cup {Answer("NoUnstable", 0, TRUE, h, 0, -1, l, 0, TRUE) :
            h \in ChunkServers, l \in ChunkServers \cup {0}}

RefreshAnswers ==
    {Answer("NoUnstable", 0, FALSE, 0, -1, -1, l, 0, TRUE) :
        l \in ChunkServers \cup {0}}

YieldAnswer(rand) == Answer("NoUnstable", 0, FALSE, 0, -1, -1, 0, rand, TRUE)

\* the answers after a transport failure that decide the leader: a refresh,
\* or a peer marked unstable and no refresh
LeaderUnstableAnswers ==
    {u \in UnstableAnswers : u.unstableState # "ServerUnstable"}

\* the redirects that decide the leader: when the peer the reply names is
\* not taken or not read back, the refresh finds no leader or the next peer
LeaderRedirectAnswers ==
    {u \in RedirectAnswers :
        \/ u.redirect = 0
        \/ UpdateLeaderWithRedirectInfoRet(u) = 0
        \/ u.authority \in {0, (u.redirect % Cardinality(ChunkServers)) + 1}}

LeaderReplies ==
    {Reply(e, -1, <<>>, <<>>, InitialSn, l, FALSE) @@ u :
        e \in {ERPCTIMEDOUT, ETIMEDOUT}, l \in BOOLEAN,
        u \in LeaderUnstableAnswers}
    \cup {Reply(111, -1, <<>>, <<>>, InitialSn, FALSE, FALSE) @@ u :
            u \in LeaderUnstableAnswers}
    \cup {Reply(0, CHUNK_OP_STATUS_REDIRECTED, <<>>, <<>>, InitialSn, FALSE,
                FALSE) @@ u : u \in LeaderRedirectAnswers}
    \cup {Reply(0, CHUNK_OP_STATUS_COPYSET_NOTEXIST, <<>>, <<>>, InitialSn,
                FALSE, FALSE) @@ u : u \in RefreshAnswers}
    \cup {Reply(0, CHUNK_OP_STATUS_OVERLOAD, <<>>, <<>>, InitialSn, FALSE,
                FALSE) @@ YieldAnswer(rnd) : rnd \in {0, RAND_MAX}}
    \cup {Reply(0, st, <<>>, <<>>, InitialSn + 1, FALSE, FALSE) @@ YieldAnswer(0) :
            st \in {CHUNK_OP_STATUS_SUCCESS, CHUNK_OP_STATUS_INVALID_REQUEST,
                    CHUNK_OP_STATUS_BACKWARD, 7}}

LeaderInit ==
    /\ req \in [Requests -> {NewRequest(op) : op \in LeaderOpTypes}]
    /\ inflightCount = 0
    /\ metaCache = [leader |-> 1]
    /\ calc = NoCall
    /\ throttle = NoThrottle
    /\ executor = NoExecutorCall

\* an outstanding attempt completes; its handler runs up to bthread_usleep
RunAndYield(r) ==
    \E a \in req[r].outstanding, in \in LeaderReplies :
        Step(r, ClientClosureRun(World(req[r], inflightCount, metaCache), a, in))

\* the handler is resumed and calls SendRetryRequest
Resume(r) ==
    /\ req[r].pc = "sleeping"
    /\ Step(r, SendRetryRequest(World(req[r], inflightCount, metaCache)))

\* the completion handler of another request of the copyset installs a
\* leader in the cache (UpdateLeader, or GetLeader with refresh)
OtherUpdateLeader ==
    \E l \in ChunkServers \ {metaCache.leader} :
        /\ metaCache' = [metaCache EXCEPT !.leader = l]
        /\ UNCHANGED <<req, inflightCount, calc, throttle, executor>>

LeaderNext ==
    \/ \E r \in Requests : AcquireToken(r)
    \/ \E r \in Requests : FirstDispatch(r)
    \/ \E r \in Requests : RunAndYield(r)
    \/ \E r \in Requests : Resume(r)
    \/ \E r \in Requests : ReleaseGuards(r)
    \/ OtherUpdateLeader

LeaderSpec == LeaderInit /\ [][LeaderNext]_vars

(***************************************************************************)
(* PairSpec: two requests of one file in flight together, a WriteChunk and *)
(* a ReadChunk, sharing the in-flight counter and the metadata cache.      *)
(***************************************************************************)
PairOfRequests == {"r1", "r2"}

PairReplies ==
    {Reply(ERPCTIMEDOUT, -1, <<>>, <<>>, InitialSn, TRUE, TRUE)
        @@ Answer("NoUnstable", 0, FALSE, 0, -1, -1, 2, 0, FALSE)}
    \cup {Reply(0, CHUNK_OP_STATUS_REDIRECTED, <<>>, <<>>, InitialSn, FALSE,
                FALSE) @@ Answer("NoUnstable", 0, TRUE, 3, 0, 0, 0, 0, FALSE)}
    \cup {Reply(0, st, <<1, 1>>, <<>>, InitialSn + 1, FALSE, FALSE)
            @@ StableAnswer(0) :
            st \in {CHUNK_OP_STATUS_SUCCESS, CHUNK_OP_STATUS_CHUNK_NOTEXIST}}

PairInit ==
    /\ req = [r \in PairOfRequests |->
                 NewRequest(IF r = "r1" THEN "WRITE" ELSE "READ")]
    /\ inflightCount = 0
    /\ metaCache = [leader |-> 1]
    /\ calc = NoCall
    /\ throttle = NoThrottle
    /\ executor = NoExecutorCall

\* an outstanding attempt of one of the two requests completes
RunOneOfPair(r) ==
    \E a \in req[r].outstanding, in \in PairReplies :
        Step(r, ClientClosureRun(World(req[r], inflightCount, metaCache), a, in))

PairNext ==
    \/ \E r \in PairOfRequests : AcquireToken(r)
    \/ \E r \in PairOfRequests : FirstDispatch(r)
    \/ \E r \in PairOfRequests : RunOneOfPair(r)
    \/ \E r \in PairOfRequests : ReleaseGuards(r)

PairSpec == PairInit /\ [][PairNext]_vars

(***************************************************************************)
(* HandlerSpec: one request of any operation, and every answer a completed *)
(* attempt and the collaborators of its handler can give.  The handler     *)
(* re-sends without being suspended.                                       *)
(***************************************************************************)
\* errno values of a failed controller that are not timeouts and coincide
\* with CHUNK_OP_STATUS_REDIRECTED and CHUNK_OP_STATUS_OVERLOAD
EPERM == 1
ENOEXEC == 8

\* a WriteChunk, a GetChunkInfo and one of the operations whose closure
\* overrides SendRetryRequest only
HandlerOpTypes == {"WRITE", "GET_CHUNK_INFO", "RECOVER_CHUNK"}

HandlerTransportErrors == {ERPCTIMEDOUT, ETIMEDOUT, 111, EPERM, ENOEXEC}

NoYield(u) == [u EXCEPT !.yields = FALSE]

HandlerReplies ==
    {Reply(e, -1, <<>>, <<>>, InitialSn, FALSE, FALSE) @@ NoYield(u) :
        e \in HandlerTransportErrors, u \in UnstableAnswers}
    \cup {Reply(0, CHUNK_OP_STATUS_REDIRECTED, <<>>, <<>>, InitialSn, FALSE,
                FALSE) @@ NoYield(u) : u \in RedirectAnswers}
    \cup {Reply(0, CHUNK_OP_STATUS_COPYSET_NOTEXIST, <<>>, <<>>, InitialSn,
                FALSE, FALSE) @@ NoYield(u) : u \in RefreshAnswers}
    \cup {Reply(0, CHUNK_OP_STATUS_OVERLOAD, <<>>, <<>>, InitialSn, FALSE,
                FALSE) @@ NoYield(YieldAnswer(rnd)) : rnd \in {0, RAND_MAX}}
    \cup {Reply(0, CHUNK_OP_STATUS_BACKWARD, <<>>, <<>>, n, FALSE, FALSE)
            @@ NoYield(YieldAnswer(0)) : n \in LatestSns}
    \cup {Reply(0, st, <<1>>, <<1>>, InitialSn, FALSE, FALSE)
            @@ NoYield(YieldAnswer(0)) :
            st \in ResponseStatuses \ {CHUNK_OP_STATUS_REDIRECTED,
                                       CHUNK_OP_STATUS_COPYSET_NOTEXIST,
                                       CHUNK_OP_STATUS_OVERLOAD,
                                       CHUNK_OP_STATUS_BACKWARD}}

HandlerInit ==
    /\ req \in [Requests -> {NewRequest(op) : op \in HandlerOpTypes}]
    /\ inflightCount = 0
    /\ metaCache = [leader |-> 1]
    /\ calc = NoCall
    /\ throttle = NoThrottle
    /\ executor = NoExecutorCall

\* an outstanding attempt completes and its ClientClosure::Run runs
RunHandler(r) ==
    \E a \in req[r].outstanding, in \in HandlerReplies :
        Step(r, ClientClosureRun(World(req[r], inflightCount, metaCache), a, in))

HandlerNext ==
    \/ \E r \in Requests : AcquireToken(r)
    \/ \E r \in Requests : FirstDispatch(r)
    \/ \E r \in Requests : RunHandler(r)
    \/ \E r \in Requests : ReleaseGuards(r)

HandlerSpec == HandlerInit /\ [][HandlerNext]_vars

(***************************************************************************)
(* BackoffSpec: TimeoutBackOff and OverLoadBackOff as functions of the     *)
(* configuration (failReqOpt_, backoffParam_), the retry count and         *)
(* std::rand().  calc holds the configuration and the last call.           *)
(***************************************************************************)
MaxCurrentRetryTimes == 6

\* chunkserverRPCTimeoutMS / chunkserverOPRetryIntervalUS
BackoffBases == {1, 5, 10, Pow2(WordBits - 2)}
\* chunkserverMaxRPCTimeoutMS / chunkserverMaxRetrySleepIntervalUS
BackoffMaxes == {12, Pow2(WordBits) - 1}
\* maxTimeoutPow / maxOverloadPow
BackoffPows == {2, IntBits - 1, IntBits}

BackoffInit ==
    /\ req = [r \in Requests |-> NewRequest("WRITE")]
    /\ inflightCount = 0
    /\ metaCache = [leader |-> 1]
    /\ calc \in {c \in {[NoCall EXCEPT !.base = b, !.max = m, !.pow = p] :
                             b \in BackoffBases, m \in BackoffMaxes,
                             p \in BackoffPows} :
                    c.base <= c.max}
    /\ throttle = NoThrottle
    /\ executor = NoExecutorCall

\* TimeoutBackOff(n), TimeoutBackOff(n + 1) and TimeoutBackOff(maxTimeoutPow)
\* of one build
CallTimeoutBackOff ==
    \E n \in 0 .. MaxCurrentRetryTimes, undefinedShift \in UndefinedShifts :
        /\ calc' = [calc EXCEPT
                      !.fn = "TimeoutBackOff",
                      !.n = n,
                      !.s = 0,
                      !.jittered = 0,
                      !.ret = TimeoutBackOffOf(calc.base, calc.max, calc.pow,
                                               n, undefinedShift),
                      !.retNext = TimeoutBackOffOf(calc.base, calc.max,
                                                   calc.pow, n + 1,
                                                   undefinedShift),
                      !.retAtMaxPow = TimeoutBackOffOf(calc.base, calc.max,
                                                      calc.pow, calc.pow,
                                                      undefinedShift)]
        /\ UNCHANGED <<req, inflightCount, metaCache, throttle, executor>>

\* OverLoadBackOff(n): nextsleeptime before the jitter, after it, and the
\* value returned
CallOverLoadBackOff ==
    \E n \in 0 .. MaxCurrentRetryTimes, undefinedShift \in UndefinedShifts,
       rand \in 0 .. RAND_MAX :
        /\ calc' = [calc EXCEPT
                      !.fn = "OverLoadBackOff",
                      !.n = n,
                      !.s = OverLoadSleepOf(calc.base, calc.pow, n,
                                            undefinedShift),
                      !.jittered = OverLoadJitteredOf(calc.base, calc.pow, n,
                                                      undefinedShift, rand),
                      !.ret = OverLoadBackOffOf(calc.base, calc.max, calc.pow,
                                                n, undefinedShift, rand),
                      !.retNext = 0,
                      !.retAtMaxPow = 0]
        /\ UNCHANGED <<req, inflightCount, metaCache, throttle, executor>>

BackoffNext ==
    \/ CallTimeoutBackOff
    \/ CallOverLoadBackOff

BackoffSpec == BackoffInit /\ [][BackoffNext]_vars

(***************************************************************************)
(* ThrottleSpec: InflightThrottle (inflight_throttle.h), called by the     *)
(* threads of the metaserver.  fetch_add and fetch_sub are atomic          *)
(* read-modify-writes, so a call of any thread is one step and the         *)
(* interleavings of the threads are the sequences of calls.  incs and decs *)
(* count the calls of Increment and Decrement; unmatched is set once a     *)
(* Decrement was called when every Increment before it had its Decrement.  *)
(***************************************************************************)
\* calls of Increment, and of Decrement, that are followed
MaxThrottleCalls == 4

\* the maxInflight a throttle is constructed with
MaxInflightRequests == {0, 1, MaxInflight}

InflightThrottle(maxInflight) ==
    [inflightRequestCount_ |-> 0, maxInflightRequest_ |-> maxInflight,
     called |-> "InflightThrottle", ret |-> FALSE, incs |-> 0, decs |-> 0,
     unmatched |-> FALSE]

\* variant: > in place of >=
IsOverLoad_Strict(t) ==
    IF t.maxInflightRequest_ > t.inflightRequestCount_ THEN FALSE ELSE TRUE

IsOverLoad(t) ==
    IF t.maxInflightRequest_ >= t.inflightRequestCount_ THEN FALSE ELSE TRUE

\* variant: the count stops at maxInflightRequest_
Increment_Saturating(t) ==
    [t EXCEPT !.inflightRequestCount_ = Min(Wrap(@ + 1), t.maxInflightRequest_)]

\* fetch_add(1) and fetch_sub(1) on a uint64_t
Increment(t) == [t EXCEPT !.inflightRequestCount_ = Wrap(@ + 1)]

Decrement(t) == [t EXCEPT !.inflightRequestCount_ = Wrap(@ - 1)]

ThrottleInit ==
    /\ req = [r \in Requests |-> NewRequest("WRITE")]
    /\ inflightCount = 0
    /\ metaCache = [leader |-> 1]
    /\ calc = NoCall
    /\ throttle \in {InflightThrottle(m) : m \in MaxInflightRequests}
    /\ executor = NoExecutorCall

CallIsOverLoad ==
    /\ throttle' = [throttle EXCEPT !.called = "IsOverLoad",
                                    !.ret = IsOverLoad(throttle)]
    /\ UNCHANGED <<req, inflightCount, metaCache, calc, executor>>

CallIncrement ==
    /\ throttle.incs < MaxThrottleCalls
    /\ throttle' = [Increment(throttle) EXCEPT !.called = "Increment",
                                               !.incs = @ + 1]
    /\ UNCHANGED <<req, inflightCount, metaCache, calc, executor>>

CallDecrement ==
    /\ throttle.decs < MaxThrottleCalls
    /\ throttle' = [Decrement(throttle) EXCEPT
                      !.called = "Decrement",
                      !.decs = @ + 1,
                      !.unmatched = @ \/ throttle.decs >= throttle.incs]
    /\ UNCHANGED <<req, inflightCount, metaCache, calc, executor>>

ThrottleNext ==
    \/ CallIsOverLoad
    \/ CallIncrement
    \/ CallDecrement

ThrottleSpec == ThrottleInit /\ [][ThrottleNext]_vars

(***************************************************************************)
(* ExecutorSpec: CurveRequestExecutor of nebd part2, as its unit tests     *)
(* call it: an operation on a file instance, with a curve client that      *)
(* answers OK or a failure.  executor holds the last call.                 *)
(***************************************************************************)
ExecutorOps == {"Close", "Extend", "GetInfo", "AioRead", "AioWrite", "Discard"}

\* NebdFileInstance, and CurveFileInstance with its fd and fileName
FileInstances ==
    [kind : {"NebdFileInstance", "CurveFileInstance"},
     fd : {-1, 0, 1, 123},
     fileName : {"", "/cinder/volume-1234_cinder_"}]

\* what the curve client returns when it is called
ClientRets == {"OK", "FAILED"}

\* variant: Extend looks at the fd as the other operations do
ValidHandle_FdOnly(op, ins) ==
    /\ ins.kind = "CurveFileInstance"
    /\ ins.fd >= 0

\* the instance is a CurveFileInstance that carries what the operation
\* hands to the curve client: the file name for Extend, the fd otherwise
ValidHandle(op, ins) ==
    /\ ins.kind = "CurveFileInstance"
    /\ IF op = "Extend" THEN ins.fileName # "" ELSE ins.fd >= 0

\* one call of the executor: the call it makes to the curve client, if any,
\* and what it returns
ExecutorCall(op, ins, clientRet) ==
    [op |-> op, instance |-> ins.kind, fd |-> ins.fd, fileName |-> ins.fileName,
     clientRet |-> IF ValidHandle(op, ins) THEN clientRet ELSE "none",
     clientCalls |-> IF ValidHandle(op, ins) THEN 1 ELSE 0,
     ret |-> IF ValidHandle(op, ins) /\ clientRet = "OK" THEN 0 ELSE -1]

ExecutorInit ==
    /\ req = [r \in Requests |-> NewRequest("WRITE")]
    /\ inflightCount = 0
    /\ metaCache = [leader |-> 1]
    /\ calc = NoCall
    /\ throttle = NoThrottle
    /\ executor = NoExecutorCall

CallExecutor(op) ==
    \E ins \in FileInstances, clientRet \in ClientRets :
        /\ executor' = ExecutorCall(op, ins, clientRet)
        /\ UNCHANGED <<req, inflightCount, metaCache, calc, throttle>>

ExecutorNext == \E op \in ExecutorOps : CallExecutor(op)

ExecutorSpec == ExecutorInit /\ [][ExecutorNext]_vars

(***************************************************************************)
(* Vocabulary of the properties: the outcome of the attempt that completed *)
(* last, read off the closure that handled it (cntlstatus_ is the          *)
(* transport's error code, status_ the application status of the reply).   *)
(***************************************************************************)
Outcome(q) ==
    CASE q.cntlstatus_ # 0 -> "RpcFailed"
      [] q.status_ = 0 -> "Success"
      [] q.status_ = 1 -> "Redirected"
      [] q.status_ = 4 -> "InvalidRequest"
      [] q.status_ = 5 -> "ChunkNotExist"
      [] q.status_ = 6 -> "CopysetNotExist"
      [] q.status_ = 8 -> "Overload"
      [] q.status_ = 9 -> "Backward"
      [] q.status_ = 10 -> "ChunkExist"
      [] q.status_ = 11 -> "EpochTooOld"
      [] OTHER -> "Unknown"

Retryable(q) ==
    \/ Outcome(q) \in {"RpcFailed", "Redirected", "CopysetNotExist",
                       "Overload", "Unknown"}
    \/ Outcome(q) = "Backward" /\ q.optype = "WRITE"

\* the request has completed: its completion continuation has run
Completed(q) == q.doneRuns >= 1

\* the step hands a further attempt of r to the transport
Resends(r) == req[r].attempts >= 1 /\ req'[r].attempts > req[r].attempts

\* the step runs the completion handler of an attempt of r
Handles(r) == req[r].outstanding \ req'[r].outstanding # {}

(***************************************************************************)
(* C1: the number of attempts handed to the transport never exceeds        *)
(* chunkserverOPMaxRetry, and a request that completes on a retryable      *)
(* outcome (so that every attempt before it was retryable too) has made    *)
(* exactly chunkserverOPMaxRetry attempts and completes with an error.     *)
(***************************************************************************)
C1_AttemptsWithinBudget ==
    \A r \in Requests :
        /\ req[r].attempts <= chunkserverOPMaxRetry
        /\ Completed(req[r]) /\ Retryable(req[r]) =>
               /\ req[r].attempts = chunkserverOPMaxRetry
               /\ req[r].errcode # 0

C1_Witness ==
    \E r \in Requests :
        /\ Completed(req[r])
        /\ req[r].cntlstatus_ = 111
        /\ req[r].attempts = chunkserverOPMaxRetry
        /\ req[r].errcode = 111

(***************************************************************************)
(* C2: a further attempt is sent only by a step in which the retry count   *)
(* was below chunkserverOPMaxRetry and the attempt just handled ended in   *)
(* RpcFailed, Redirected, CopysetNotExist, Backward on a WriteChunk,       *)
(* Overload or Unknown.                                                    *)
(***************************************************************************)
C2_ResendOnlyWhenRetryable ==
    [][\A r \in Requests :
           Resends(r) =>
               /\ Handles(r)
               /\ req[r].retryTimes < chunkserverOPMaxRetry
               /\ Retryable(req'[r])]_vars

C2_Witness ==
    \E r \in Requests :
        /\ req[r].attempts = 2
        /\ req[r].outstanding = {2}
        /\ req[r].optype = "WRITE"
        /\ Outcome(req[r]) = "Backward"

(***************************************************************************)
(* C3: done_->Run() runs at most once; it runs in every step that handles  *)
(* an attempt without sending another one and in no step that sends one;   *)
(* once it has run, no attempt is sent and it does not run again.          *)
(***************************************************************************)
C3_CompletionExactlyOnce ==
    [][\A r \in Requests :
           /\ req'[r].doneRuns <= 1
           /\ req'[r].doneRuns >= req[r].doneRuns
           /\ req'[r].doneRuns > req[r].doneRuns =>
                  req'[r].attempts = req[r].attempts
           /\ Handles(r) /\ req'[r].attempts = req[r].attempts =>
                  req'[r].doneRuns = req[r].doneRuns + 1
           /\ Completed(req[r]) =>
                  /\ req'[r].attempts = req[r].attempts
                  /\ req'[r].doneRuns = req[r].doneRuns]_vars

C3_Witness ==
    \E r \in Requests :
        /\ req[r].doneRuns = 1
        /\ req[r].attempts = 2
        /\ Outcome(req[r]) = "Success"

(***************************************************************************)
(* C4: when every attempt handed to the transport completes, a request     *)
(* that has been sent eventually completes.                                *)
(***************************************************************************)
C4_EventuallyDone ==
    \A r \in Requests : (req[r].attempts >= 1) ~> Completed(req[r])

C4_Witness ==
    \E r \in Requests :
        /\ Completed(req[r])
        /\ req[r].attempts = chunkserverOPMaxRetry
        /\ Outcome(req[r]) = "Overload"

(***************************************************************************)
(* C5: when the completion continuation has run, the error code is 0       *)
(* exactly if the last attempt ended in Success, or in ChunkNotExist on a  *)
(* ReadChunk.                                                              *)
(***************************************************************************)
C5_ZeroIffSuccess ==
    \A r \in Requests :
        Completed(req[r]) =>
            (req[r].errcode = 0 <=>
                \/ Outcome(req[r]) = "Success"
                \/ Outcome(req[r]) = "ChunkNotExist" /\ req[r].optype = "READ")

C5_Witness ==
    \E r \in Requests :
        /\ Completed(req[r])
        /\ req[r].optype = "READ"
        /\ Outcome(req[r]) = "ChunkNotExist"
        /\ req[r].errcode = 0


\* a terminal application error, as the properties name it
TerminalError(q) ==
    \/ Outcome(q) \in {"ChunkExist", "InvalidRequest", "EpochTooOld"}
    \/ Outcome(q) = "ChunkNotExist" /\ q.optype # "READ"
    \/ Outcome(q) = "Backward" /\ q.optype # "WRITE"

(***************************************************************************)
(* C6: when the last attempt ended in a terminal application error         *)
(* (ChunkNotExist on anything but a ReadChunk, ChunkExist, InvalidRequest, *)
(* EpochTooOld, Backward on anything but a WriteChunk), the error code the *)
(* completion continuation sees is the application status of that reply.   *)
(***************************************************************************)
C6_TerminalErrorVerbatim ==
    \A r \in Requests :
        Completed(req[r]) /\ TerminalError(req[r]) =>
            req[r].errcode = req[r].status_

(***************************************************************************)
(* C7: when the request completes because the retry budget is exhausted    *)
(* (its last attempt ended in a retryable outcome), the error code is the  *)
(* status of that attempt: the transport's error code if the transport     *)
(* failed, else the application status of the reply.                       *)
(***************************************************************************)
C7_ExhaustedKeepsLastStatus ==
    \A r \in Requests :
        Completed(req[r]) /\ Retryable(req[r]) =>
            req[r].errcode = IF req[r].cntlstatus_ # 0
                             THEN req[r].cntlstatus_
                             ELSE req[r].status_

C7_Witness ==
    \E r \in Requests :
        /\ Completed(req[r])
        /\ Outcome(req[r]) = "Redirected"
        /\ req[r].errcode = 1
        /\ req[r].attempts = chunkserverOPMaxRetry

(***************************************************************************)
(* C8: the retry count never decreases, and a step that sends attempt i+1  *)
(* after attempt i raises it by exactly 1.                                 *)
(***************************************************************************)
C8_RetryCountStepsByOne ==
    [][\A r \in Requests :
           /\ req'[r].retryTimes >= req[r].retryTimes
           /\ Resends(r) =>
                  req'[r].retryTimes = req[r].retryTimes + 1]_vars

C8_Witness ==
    \E r \in Requests :
        /\ req[r].attempts = 3
        /\ req[r].retryTimes = 3
        /\ req[r].outstanding = {3}

(***************************************************************************)
(* C9, as stated: at most one attempt is outstanding, and no step of the   *)
(* completion of attempt N, the release of its closure and controller      *)
(* included, happens once attempt N+1 has been handed to the transport.    *)
(***************************************************************************)
C9_NothingAfterNextDispatch ==
    [][\A r \in Requests :
           /\ Cardinality(req'[r].outstanding) <= 1
           /\ \A a \in req[r].closures \ req'[r].closures :
                  req[r].attempts = a]_vars

(***************************************************************************)
(* C9, amended: at most one attempt is outstanding; attempt N+1 is handed  *)
(* to the transport only by the step that handles attempt N; the closure   *)
(* and controller of an attempt are released only after its handler has    *)
(* run, and that release changes nothing else of the request.              *)
(***************************************************************************)
C9_SerialisedUpToRelease ==
    [][\A r \in Requests :
           /\ Cardinality(req'[r].outstanding) <= 1
           /\ Resends(r) => req[r].outstanding = {req[r].attempts}
                            /\ req'[r].outstanding = {req'[r].attempts}
                            /\ req'[r].attempts = req[r].attempts + 1
           /\ \A a \in req[r].closures \ req'[r].closures :
                  /\ a \notin req[r].outstanding
                  /\ req'[r] = [req[r] EXCEPT !.closures = @ \ {a},
                                               !.freed = @ + 1]]_vars

\* attempt 2 is with the transport and the closure of attempt 1 is released
C9_Witness ==
    \E r \in Requests :
        /\ req[r].outstanding = {2}
        /\ req[r].closures = {2}

\* the tokens a request holds
HoldsToken(q) == IF q.ownInflight THEN 1 ELSE 0

\* the states of the token of a request
C10_TokenInvariant ==
    /\ inflightCount >= 0
    /\ inflightCount >= OwnTokens
    /\ \A r \in Requests :
           /\ req[r].tokenReleases = (IF Completed(req[r]) THEN 1 ELSE 0)
           /\ req[r].attempts >= 1 =>
                  (req[r].ownInflight <=> ~Completed(req[r]))

\* what a step may do to the token and the counter
C10_TokenStep ==
    \A r \in Requests :
        /\ req'[r].attempts > req[r].attempts =>
               /\ req[r].ownInflight /\ req'[r].ownInflight
               /\ req'[r].tokenReleases = req[r].tokenReleases
               /\ inflightCount' = inflightCount
        /\ req'[r] # req[r] =>
               inflightCount' - HoldsToken(req'[r])
                   = inflightCount - HoldsToken(req[r])

(***************************************************************************)
(* C10: the inflight token is held from before the first dispatch until    *)
(* the completion continuation runs, is released exactly once and then,    *)
(* and no step that sends an attempt takes or releases it; the counter     *)
(* never goes below zero, and a step of a request changes it by exactly    *)
(* the request's own token.                                                *)
(***************************************************************************)
C10_TokenOnce == []C10_TokenInvariant /\ [][C10_TokenStep]_vars

C10_Witness ==
    \E r \in Requests :
        /\ Completed(req[r])
        /\ req[r].attempts = 2
        /\ req[r].tokenReleases = 1
        /\ ~req[r].ownInflight
        /\ inflightCount = 1


(***************************************************************************)
(* C11: a step that handles a CHUNK_NOTEXIST reply sends no further        *)
(* attempt and runs the completion continuation; for a ReadChunk the error *)
(* code is then 0 and the read buffer has the requested length and holds   *)
(* zeros only; for every other operation the error code is not 0 and the   *)
(* read buffer and the chunk-info accumulator are as they were.            *)
(***************************************************************************)
C11_ReadHoleIsZeroFilled ==
    [][\A r \in Requests :
           Handles(r) /\ Outcome(req'[r]) = "ChunkNotExist" =>
               /\ req'[r].attempts = req[r].attempts
               /\ req'[r].doneRuns = req[r].doneRuns + 1
               /\ IF req[r].optype = "READ"
                  THEN /\ req'[r].errcode = 0
                       /\ Len(req'[r].readData) = RawLength
                       /\ \A i \in 1 .. RawLength : req'[r].readData[i] = 0
                  ELSE /\ req'[r].errcode # 0
                       /\ req'[r].readData = req[r].readData
                       /\ req'[r].chunkSn = req[r].chunkSn]_vars

C11_Witness ==
    \E r \in Requests :
        /\ Completed(req[r])
        /\ req[r].optype = "READ"
        /\ Outcome(req[r]) = "ChunkNotExist"
        /\ req[r].attempts = 2
        /\ Len(req[r].readData) = RawLength
        /\ \A i \in 1 .. RawLength : req[r].readData[i] = 0

(***************************************************************************)
(* C13: the slow-request flag, once set, stays set; IncremSlowRequestNum   *)
(* is called at most once for a request, and a step calls it exactly when  *)
(* it handles an attempt, re-sends, found the flag unset and the clock     *)
(* reads more than the threshold past CreatedMS(); the flag is set exactly *)
(* when the metric has been emitted.                                       *)
(***************************************************************************)
C13_SlowMarkedOnce ==
    [][\A r \in Requests :
           /\ req[r].slowRequest => req'[r].slowRequest
           /\ req'[r].slowRequestNum <= 1
           /\ req'[r].slowRequest <=> req'[r].slowRequestNum = 1
           /\ req'[r].slowRequestNum =
                  req[r].slowRequestNum
                  + (IF /\ Handles(r)
                        /\ Resends(r)
                        /\ ~req[r].slowRequest
                        /\ req'[r].elapsedOver
                     THEN 1 ELSE 0)]_vars

\* the third attempt of a request that was marked slow, whose second retry
\* found the clock past the threshold again
C13_Witness ==
    \E r \in Requests :
        /\ req[r].attempts = 3
        /\ req[r].outstanding = {3}
        /\ req[r].slowRequest
        /\ req[r].elapsedOver
        /\ req[r].nextTimeoutMS = 0
        /\ req[r].slowRequestNum = 1

\* the closures and controllers of a request are accounted for
C16_Accounted ==
    \A r \in Requests :
        /\ req[r].outstanding \subseteq req[r].closures
        /\ req[r].closures \subseteq 1 .. req[r].attempts
        /\ Cardinality(req[r].closures) + req[r].freed = req[r].attempts
        /\ req[r].closures \ req[r].outstanding # {} => ENABLED ReleaseGuards(r)

\* what a step may do to the closures and controllers of a request
C16_ReleaseStep ==
    \A r \in Requests :
        /\ \A a \in req[r].outstanding \ req'[r].outstanding :
               a \in req[r].closures /\ a \in req'[r].closures
        /\ req'[r].freed \in {req[r].freed, req[r].freed + 1}
        /\ req'[r].freed = req[r].freed + 1 <=>
               \E a \in req[r].closures \ req[r].outstanding :
                   req'[r].closures = req[r].closures \ {a}
        /\ req[r].closures \ req'[r].closures # {} =>
               req'[r].freed = req[r].freed + 1

(***************************************************************************)
(* C16: the closure and the controller of an attempt are alive while its   *)
(* handler runs and are still to be deleted when it returns, on every path *)
(* (completion, budget exhaustion, re-send); they are deleted by one step, *)
(* once, and only after the handler has run; every closure allocated is    *)
(* either alive or has been deleted exactly once.                          *)
(***************************************************************************)
C16_ReleasedExactlyOnce == []C16_Accounted /\ [][C16_ReleaseStep]_vars

C16_Witness ==
    \E r \in Requests :
        /\ Completed(req[r])
        /\ Outcome(req[r]) = "Success"
        /\ req[r].attempts = chunkserverOPMaxRetry
        /\ req[r].closures = {}
        /\ req[r].freed = chunkserverOPMaxRetry

(***************************************************************************)
(* C12, as stated: the attempt that follows a Redirected reply with a      *)
(* valid hint is sent to the hinted peer if UpdateLeader accepted the      *)
(* hint, and to the leader the authoritative refresh returned otherwise.   *)
(***************************************************************************)
C12_TargetIsHintOrRefreshed ==
    [][\A r \in Requests :
           Resends(r) /\ Outcome(req[r]) = "Redirected" /\ req[r].hint # 0 =>
               req'[r].chunkserverID_ = IF req[r].updated
                                        THEN req[r].hint
                                        ELSE req[r].refreshed]_vars

(***************************************************************************)
(* C12, amended: an attempt is sent to the leader the metadata cache holds *)
(* when it is dispatched.  The handler of a Redirected reply with a valid  *)
(* hint leaves in the cache the leader of the authoritative refresh if it  *)
(* made one and it succeeded, else the hinted peer if UpdateLeader         *)
(* accepted it, else the leader the cache held.                            *)
(***************************************************************************)
C12_TargetIsCachedLeader ==
    [][\A r \in Requests :
           /\ req'[r].attempts > req[r].attempts =>
                  req'[r].chunkserverID_ = metaCache.leader
           /\ Handles(r) /\ Outcome(req'[r]) = "Redirected"
                  /\ req'[r].hint # 0 =>
                  metaCache'.leader =
                      IF req'[r].refreshed # 0 THEN req'[r].refreshed
                      ELSE IF req'[r].updated THEN req'[r].hint
                      ELSE metaCache.leader]_vars

\* the second attempt follows a redirect to peer 2 that UpdateLeader
\* accepted, and goes to peer 3, which another closure installed meanwhile
C12_Witness ==
    \E r \in Requests :
        /\ req[r].attempts = 2
        /\ req[r].outstanding = {2}
        /\ Outcome(req[r]) = "Redirected"
        /\ req[r].hint = 2
        /\ req[r].updated
        /\ req[r].refreshed = 0
        /\ req[r].chunkserverID_ = 3

(***************************************************************************)
(* C20: a handler that retries after a transport timeout (ERPCTIMEDOUT or  *)
(* ETIMEDOUT) sets the next timeout to chunkserverRPCTimeoutMS when the    *)
(* retry count is below chunkserverMinRetryTimesForceTimeoutBackoff and    *)
(* IsLeaderMayChange answered true, and to TimeoutBackOff(retry count)     *)
(* otherwise, and does not call bthread_usleep, whatever retryDirectly_.   *)
(***************************************************************************)
C20_TimeoutBranch ==
    [][\A r \in Requests :
           Handles(r) /\ IsTimeout(req'[r].cntlstatus_)
               /\ ~Completed(req'[r]) =>
               /\ req'[r].nextTimeoutMS =
                      IF /\ req[r].retryTimes <
                                chunkserverMinRetryTimesForceTimeoutBackoff
                         /\ req'[r].leaderMayChange
                      THEN chunkserverRPCTimeoutMS
                      ELSE TimeoutBackOff(req[r].retryTimes)
               /\ req'[r].sleepUS = 0]_vars

\* the second handler timed out with the leader in doubt and a refresh that
\* found a new leader: the backoff is forced and nothing sleeps
C20_Witness ==
    \E r \in Requests :
        /\ req[r].pc = "sleeping"
        /\ req[r].attempts = 2
        /\ IsTimeout(req[r].cntlstatus_)
        /\ req[r].leaderMayChange
        /\ req[r].retryDirectly_
        /\ req[r].nextTimeoutMS = TimeoutBackOff(2)
        /\ req[r].sleepUS = 0

(***************************************************************************)
(* C17: a step that runs the completion handler of a request leaves every  *)
(* other request as it is; what it changes besides its own request is the  *)
(* metadata cache and, by its own token, the in-flight counter.            *)
(***************************************************************************)
C17_OtherRequestsUntouched ==
    [][\A r \in DOMAIN req :
           Handles(r) =>
               /\ \A o \in DOMAIN req \ {r} : req'[o] = req[o]
               /\ UNCHANGED <<calc, throttle, executor>>
               /\ inflightCount' - HoldsToken(req'[r])
                      = inflightCount - HoldsToken(req[r])]_vars

\* both requests are in flight, the read has been redirected and the write
\* has timed out once; the cache holds the leader the write's refresh found
C17_Witness ==
    /\ DOMAIN req = PairOfRequests
    /\ req["r1"].outstanding = {2}
    /\ req["r2"].outstanding = {2}
    /\ req["r1"].cntlstatus_ = ERPCTIMEDOUT
    /\ req["r2"].status_ = CHUNK_OP_STATUS_REDIRECTED
    /\ req["r1"].errcode = -1
    /\ metaCache.leader = 2

(***************************************************************************)
(* C14: under every configuration with chunkserverRPCTimeoutMS <=          *)
(* chunkserverMaxRPCTimeoutMS and for every retry count n, TimeoutBackOff  *)
(* (n) lies between the two, and TimeoutBackOff(n) <= TimeoutBackOff(n+1). *)
(***************************************************************************)
C14_TimeoutBackOffMonotoneInRange ==
    calc.fn = "TimeoutBackOff" =>
        /\ calc.base <= calc.ret
        /\ calc.ret <= calc.max
        /\ calc.ret <= calc.retNext

(***************************************************************************)
(* C15: under every configuration with chunkserverOPRetryIntervalUS <=     *)
(* chunkserverMaxRetrySleepIntervalUS, for every retry count n and every   *)
(* std::rand(), OverLoadBackOff(n) lies between the two, and nextsleeptime *)
(* after the jitter differs from s = base * 2^min(n, maxOverloadPow) by at *)
(* most s/10.                                                              *)
(***************************************************************************)
C15_OverLoadBackOffJitterWithinTenth ==
    calc.fn = "OverLoadBackOff" =>
        LET s == calc.base * Pow2(Min(calc.n, calc.pow))
        IN  /\ calc.base <= calc.ret
            /\ calc.ret <= calc.max
            /\ 10 * (calc.jittered - s) <= s
            /\ 10 * (s - calc.jittered) <= s

(***************************************************************************)
(* C18: a call of IsOverLoad returns TRUE exactly when the count is        *)
(* greater than maxInflightRequest_, and leaves the count as it is.        *)
(***************************************************************************)
C18_OverLoadIffAboveMax ==
    [][throttle'.called = "IsOverLoad" =>
           /\ throttle'.ret = (throttle.inflightRequestCount_
                                   > throttle.maxInflightRequest_)
           /\ throttle'.inflightRequestCount_ = throttle.inflightRequestCount_
           /\ throttle'.maxInflightRequest_ = throttle.maxInflightRequest_]_vars

\* the count is one above the maximum and IsOverLoad has answered TRUE
C18_Witness ==
    /\ throttle.called = "IsOverLoad"
    /\ throttle.maxInflightRequest_ = MaxInflight
    /\ throttle.inflightRequestCount_ = MaxInflight + 1
    /\ throttle.ret

(***************************************************************************)
(* C19: an operation of the executor returns -1 without a call of the      *)
(* curve client when the instance is not a CurveFileInstance or its handle *)
(* is invalid (fd < 0; for Extend an empty file name); otherwise it calls  *)
(* the curve client once and returns 0 when the client succeeds and -1     *)
(* when it fails.                                                          *)
(***************************************************************************)
C19_ExecutorReturns ==
    executor.op # "none" =>
        IF \/ executor.instance # "CurveFileInstance"
           \/ executor.op = "Extend" /\ executor.fileName = ""
           \/ executor.op # "Extend" /\ executor.fd < 0
        THEN executor.ret = -1 /\ executor.clientCalls = 0
        ELSE /\ executor.clientCalls = 1
             /\ executor.clientRet \in ClientRets
             /\ executor.ret = IF executor.clientRet = "OK" THEN 0 ELSE -1

\* Extend of an instance that has a file name and no fd, as the test's
\* fourth case: the client is called and succeeds
C19_Witness ==
    /\ executor.op = "Extend"
    /\ executor.instance = "CurveFileInstance"
    /\ executor.fileName # ""
    /\ executor.fd = -1
    /\ executor.clientCalls = 1
    /\ executor.ret = 0

(***************************************************************************)
(* Vocabulary of the properties about the calls of a handler.              *)
(***************************************************************************)
\* how often the handler that ran last on q made the call name
Count(q, name) == Cardinality({i \in DOMAIN q.calls : q.calls[i] = name})

\* the calls that look the leader up or write the metadata cache
IsCacheCall(name) ==
    name \in {"SetServerUnstable", "SetChunkserverUnstable",
              "GetLeader(refresh)", "UpdateLeader", "GetLeader"}

CacheCalls(q) == SelectSeq(q.calls, IsCacheCall)

\* the sleep of a retry that is neither a timeout nor an Overload
NormalSleep(q) ==
    IF q.retryDirectly_ THEN 0
    ELSE IF Outcome(q) = "Redirected"
         THEN chunkserverOPRetryIntervalUS \div 10
         ELSE chunkserverOPRetryIntervalUS

(***************************************************************************)
(* C21: a step that handles an attempt whose transport error is not a      *)
(* timeout and re-sends has slept OverLoadBackOff(retry count) when the    *)
(* outcome is Overload, and otherwise 0 when retryDirectly_ is set and     *)
(* chunkserverOPRetryIntervalUS when it is not, divided by 10 exactly when *)
(* the outcome is Redirected; so after an RpcFailed attempt it has slept   *)
(* retryDirectly_ ? 0 : chunkserverOPRetryIntervalUS whatever the error.   *)
(***************************************************************************)
C21_NonTimeoutSleepByOutcome ==
    [][\A r \in Requests :
           Handles(r) /\ Resends(r) /\ ~IsTimeout(req'[r].cntlstatus_) =>
               IF Outcome(req'[r]) = "Overload"
               THEN \E rnd \in 0 .. RAND_MAX :
                        req'[r].sleepUS = OverLoadBackOff(req[r].retryTimes, rnd)
               ELSE req'[r].sleepUS = NormalSleep(req'[r])]_vars

(***************************************************************************)
(* C22 as stated: after a transport failure IncreTimeout and               *)
(* IncremTimeOutRPCCount have been called once each when the error is one  *)
(* PreProcessBeforeRetry treats as a timeout, and not at all otherwise.    *)
(***************************************************************************)
C22_CountedIffTimeoutBranch ==
    \A r \in Requests :
        Outcome(req[r]) = "RpcFailed" =>
            /\ Count(req[r], "IncreTimeout") =
                   (IF IsTimeout(req[r].cntlstatus_) THEN 1 ELSE 0)
            /\ Count(req[r], "IncremTimeOutRPCCount") =
                   (IF IsTimeout(req[r].cntlstatus_) THEN 1 ELSE 0)

(***************************************************************************)
(* C22: after a transport failure IncreTimeout and IncremTimeOutRPCCount   *)
(* have been called once each when the error is brpc::ERPCTIMEDOUT, and    *)
(* not at all otherwise; without a transport failure neither is called.    *)
(* Every counted attempt is one PreProcessBeforeRetry treats as a timeout; *)
(* an ETIMEDOUT attempt is treated as a timeout and is not counted.        *)
(***************************************************************************)
C22_CountedIffRpcTimeout ==
    \A r \in Requests :
        /\ Count(req[r], "IncreTimeout") =
               (IF req[r].cntlstatus_ = ERPCTIMEDOUT THEN 1 ELSE 0)
        /\ Count(req[r], "IncremTimeOutRPCCount") =
               (IF req[r].cntlstatus_ = ERPCTIMEDOUT THEN 1 ELSE 0)
        /\ Count(req[r], "IncreTimeout") = 1 => IsTimeout(req[r].cntlstatus_)

\* a connection timeout has taken the timeout branch (the next timeout is
\* set and nothing was slept) and was not counted
C22_Witness ==
    \E r \in Requests :
        /\ req[r].cntlstatus_ = ETIMEDOUT
        /\ req[r].attempts = 2
        /\ req[r].nextTimeoutMS = TimeoutBackOff(1)
        /\ req[r].sleepUS = 0
        /\ Count(req[r], "IncreTimeout") = 0

(***************************************************************************)
(* C23: a step that handles a transport failure asks                       *)
(* GetCurrentUnstableState and then, of the calls that touch the metadata  *)
(* cache, makes exactly: SetServerUnstable, followed by                    *)
(* SetChunkserverUnstable only if it failed, for ServerUnstable;           *)
(* SetChunkserverUnstable for ChunkServerUnstable; GetLeader with refresh  *)
(* for NoUnstable.  The leader of the cache changes only by that refresh.  *)
(***************************************************************************)
C23_ReactionToUnstableState ==
    [][\A r \in Requests :
           Handles(r) /\ Outcome(req'[r]) = "RpcFailed" =>
               /\ req'[r].unstableState \in UnstableStates
               /\ CacheCalls(req'[r]) =
                      (CASE req'[r].unstableState = "ServerUnstable" ->
                                IF req'[r].setServerUnstableRet = 0
                                THEN <<"SetServerUnstable">>
                                ELSE <<"SetServerUnstable",
                                       "SetChunkserverUnstable">>
                         [] req'[r].unstableState = "ChunkServerUnstable" ->
                                <<"SetChunkserverUnstable">>
                         [] req'[r].unstableState = "NoUnstable" ->
                                <<"GetLeader(refresh)">>)
               /\ req'[r].refreshed # 0 => req'[r].unstableState = "NoUnstable"
               /\ metaCache'.leader = IF req'[r].refreshed # 0
                                      THEN req'[r].refreshed
                                      ELSE metaCache.leader]_vars

\* the server is unstable and SetServerUnstable has succeeded: the
\* chunkserver is not marked and the leader is not refreshed
C23_Witness ==
    \E r \in Requests :
        /\ Outcome(req[r]) = "RpcFailed"
        /\ req[r].unstableState = "ServerUnstable"
        /\ req[r].setServerUnstableRet = 0
        /\ Count(req[r], "SetServerUnstable") = 1
        /\ Count(req[r], "SetChunkserverUnstable") = 0
        /\ req[r].attempts = 2

(***************************************************************************)
(* C24: a step that handles an attempt whose transport succeeded calls     *)
(* ClearTimeout exactly once, whatever the status, and before it enters    *)
(* the outcome handler or records a metric; a step that handles a          *)
(* transport failure does not call it.                                     *)
(***************************************************************************)
C24_ClearTimeoutOnceFirst ==
    [][\A r \in Requests :
           Handles(r) =>
               IF req'[r].cntlstatus_ = 0
               THEN /\ Count(req'[r], "ClearTimeout") = 1
                    /\ req'[r].calls[1] = "ClearTimeout"
               ELSE Count(req'[r], "ClearTimeout") = 0]_vars

\* a reply with a status that has no case label: ClearTimeout, then OnRetry
C24_Witness ==
    \E r \in Requests :
        /\ Outcome(req[r]) = "Unknown"
        /\ req[r].calls = <<"ClearTimeout", "OnRetry", "IncremFailRPCCount">>
        /\ req[r].attempts = 2

(***************************************************************************)
(* C25 as stated: a step that handles a Redirected reply records the       *)
(* redirect metric once; when the reply names a peer and UpdateLeader      *)
(* takes it, the step reads the leader back with GetLeader, sets           *)
(* retryDirectly_ to (that leader # chunkserverID_) and makes no refresh;  *)
(* otherwise it makes exactly one refresh.                                 *)
(***************************************************************************)
C25_HintTakenMeansNoRefresh ==
    [][\A r \in Requests :
           Handles(r) /\ Outcome(req'[r]) = "Redirected" =>
               /\ Count(req'[r], "IncremRedirectRPCCount") = 1
               /\ IF req'[r].updated
                  THEN /\ Count(req'[r], "GetLeader") = 1
                       /\ req'[r].retryDirectly_ =
                              (req'[r].hint # req[r].chunkserverID_)
                       /\ Count(req'[r], "GetLeader(refresh)") = 0
                  ELSE Count(req'[r], "GetLeader(refresh)") = 1]_vars

(***************************************************************************)
(* C25: a step that handles a Redirected reply records the redirect metric *)
(* once; when the reply names a peer and UpdateLeader takes it, the step   *)
(* reads the leader back with GetLeader; when that read succeeds too it    *)
(* sets retryDirectly_ to (the leader read # chunkserverID_) and makes no  *)
(* refresh; when the reply names no peer, or UpdateLeader or the read-back *)
(* fails, it makes exactly one refresh.                                    *)
(***************************************************************************)
C25_HintReadBackMeansNoRefresh ==
    [][\A r \in Requests :
           Handles(r) /\ Outcome(req'[r]) = "Redirected" =>
               /\ Count(req'[r], "IncremRedirectRPCCount") = 1
               /\ Count(req'[r], "UpdateLeader") =
                      (IF req'[r].hint # 0 THEN 1 ELSE 0)
               /\ Count(req'[r], "GetLeader") =
                      (IF req'[r].updated THEN 1 ELSE 0)
               /\ IF req'[r].updated /\ req'[r].reread # 0
                  THEN /\ req'[r].reread = req'[r].hint
                       /\ req'[r].retryDirectly_ =
                              (req'[r].reread # req[r].chunkserverID_)
                       /\ Count(req'[r], "GetLeader(refresh)") = 0
                  ELSE Count(req'[r], "GetLeader(refresh)") = 1]_vars

\* a GetChunkInfo whose reply named another peer: the peer was taken and
\* read back, and the next attempt went out without a refresh
C25_Witness ==
    \E r \in Requests :
        /\ req[r].optype = "GET_CHUNK_INFO"
        /\ Outcome(req[r]) = "Redirected"
        /\ req[r].updated
        /\ req[r].reread = 2
        /\ req[r].retryDirectly_
        /\ req[r].refreshed = 0
        /\ Count(req[r], "GetLeader(refresh)") = 0
        /\ req[r].attempts = 2
        /\ req[r].chunkserverID_ = 2

C27_BackwardSetsSeq ==
    [][\A r \in Requests :
           /\ req'[r].seq =
                  IF /\ Handles(r)
                     /\ Outcome(req'[r]) = "Backward"
                     /\ req[r].optype = "WRITE"
                  THEN req'[r].latestSn
                  ELSE req[r].seq
           /\ req'[r].latestSn # 0 =>
                  /\ Count(req'[r], "GetLatestFileSn") = 1
                  /\ req'[r].latestSn \in LatestSns
           /\ req'[r].writeData = req[r].writeData
           /\ req'[r].offset = req[r].offset
           /\ Resends(r) =>
                  /\ req'[r].sent.seq = req'[r].seq
                  /\ req'[r].sent.writeData = req[r].writeData
                  /\ req'[r].sent.offset = req[r].offset
                  /\ req'[r].sent.length = RawLength]_vars

\* the second attempt of a WriteChunk carries the newer sequence number
C27_Witness ==
    \E r \in Requests :
        /\ req[r].optype = "WRITE"
        /\ Outcome(req[r]) = "Backward"
        /\ req[r].attempts = 2
        /\ req[r].outstanding = {2}
        /\ req[r].seq = InitialSn + 1
        /\ req[r].sent.seq = InitialSn + 1
        /\ req[r].sent.writeData = req[r].writeData
        /\ req[r].sent.length = RawLength

(***************************************************************************)
(* C28: a step that handles an OVERLOAD reply, or a reply whose status has *)
(* no case label, makes none of GetLeader, UpdateLeader, SetServerUnstable *)
(* and SetChunkserverUnstable, leaves the leader of the cache as it is and *)
(* leaves retryDirectly_ false.                                            *)
(***************************************************************************)
C28_OverloadNoLeaderLookup ==
    [][\A r \in Requests :
           Handles(r) /\ Outcome(req'[r]) \in {"Overload", "Unknown"} =>
               /\ CacheCalls(req'[r]) = <<>>
               /\ req'[r].unstableState = "none"
               /\ ~req'[r].retryDirectly_
               /\ metaCache' = metaCache]_vars

\* an overloaded chunkserver: the re-send has slept OverLoadBackOff and
\* asked nobody for the leader
C28_Witness ==
    \E r \in Requests :
        /\ Outcome(req[r]) = "Overload"
        /\ req[r].attempts = 2
        /\ req[r].outstanding = {2}
        /\ req[r].sleepUS >= chunkserverOPRetryIntervalUS
        /\ req[r].calls = <<"ClearTimeout", "OnRetry", "IncremFailRPCCount">>
        /\ ~req[r].retryDirectly_

(***************************************************************************)
(* C29: under every configuration, for every n >= maxTimeoutPow            *)
(* TimeoutBackOff(n) = TimeoutBackOff(maxTimeoutPow), and for every n >=   *)
(* maxOverloadPow nextsleeptime of OverLoadBackOff before the jitter is    *)
(* chunkserverOPRetryIntervalUS * 2^maxOverloadPow.                        *)
(***************************************************************************)
C29_ExponentSaturates ==
    /\ calc.fn = "TimeoutBackOff" /\ calc.n >= calc.pow =>
           calc.ret = calc.retAtMaxPow
    /\ calc.fn = "OverLoadBackOff" /\ calc.n >= calc.pow =>
           calc.s = calc.base * Pow2(calc.pow)

(***************************************************************************)
(* C30: a step that handles an attempt with a retryable outcome calls      *)
(* IncremFailRPCCount exactly once, whether it re-sends or completes the   *)
(* request because the retries are used up; a step that handles a SUCCESS  *)
(* reply does not call it.                                                 *)
(***************************************************************************)
C30_FailCountedOncePerRetryable ==
    [][\A r \in Requests :
           Handles(r) =>
               /\ Retryable(req'[r]) =>
                      Count(req'[r], "IncremFailRPCCount") = 1
               /\ Outcome(req'[r]) = "Success" =>
                      Count(req'[r], "IncremFailRPCCount") = 0]_vars

\* the attempt that uses up the retries is counted as well
C30_Witness ==
    \E r \in Requests :
        /\ Completed(req[r])
        /\ Retryable(req[r])
        /\ req[r].attempts = chunkserverOPMaxRetry
        /\ req[r].errcode # 0
        /\ Count(req[r], "IncremFailRPCCount") = 1
(***************************************************************************)
(* C31: a step that handles a SUCCESS reply sets the error code to 0,      *)
(* calls LatencyRecord once and IncremRPCQPSCount once, keeps the retry    *)
(* count, the next timeout and the slow flag, asks for no sleep, makes no  *)
(* leader lookup or update and does not re-send; a request whose first     *)
(* attempt succeeds is completed with that one attempt.                    *)
(***************************************************************************)
C31_SuccessFrame ==
    [][\A r \in Requests :
           Handles(r) /\ Outcome(req'[r]) = "Success" =>
               /\ req'[r].errcode = 0
               /\ Count(req'[r], "LatencyRecord") = 1
               /\ Count(req'[r], "IncremRPCQPSCount") = 1
               /\ req'[r].retryTimes = req[r].retryTimes
               /\ req'[r].nextTimeoutMS = req[r].nextTimeoutMS
               /\ req'[r].slowRequest = req[r].slowRequest
               /\ req'[r].sleepUS = 0
               /\ CacheCalls(req'[r]) = <<>>
               /\ metaCache' = metaCache
               /\ req'[r].attempts = req[r].attempts
               /\ req'[r].outstanding = {}
               /\ req'[r].doneRuns = req[r].doneRuns + 1]_vars

\* the first attempt succeeded: error code 0, both metrics recorded once,
\* the completion run once and no attempt after the first
C31_Witness ==
    \E r \in Requests :
        /\ Completed(req[r])
        /\ Outcome(req[r]) = "Success"
        /\ req[r].attempts = 1
        /\ req[r].errcode = 0
        /\ req[r].doneRuns = 1
        /\ Count(req[r], "LatencyRecord") = 1
        /\ Count(req[r], "IncremRPCQPSCount") = 1

(***************************************************************************)
(* C32: the next timeout of a request changes only in a step that handles  *)
(* a timed-out attempt and re-sends; a retry after any other outcome       *)
(* re-sends with the next timeout as it was.                               *)
(***************************************************************************)
C32_TimeoutWrittenOnlyOnTimeout ==
    [][\A r \in Requests :
           /\ req'[r].nextTimeoutMS # req[r].nextTimeoutMS =>
                  /\ Handles(r)
                  /\ Resends(r)
                  /\ IsTimeout(req'[r].cntlstatus_)
           /\ Handles(r) /\ Resends(r) /\ ~IsTimeout(req'[r].cntlstatus_) =>
                  req'[r].nextTimeoutMS = req[r].nextTimeoutMS]_vars

\* the first attempt timed out and enlarged the timeout, the second did not
\* time out, and the third is in flight with the enlarged timeout
C32_Witness ==
    \E r \in Requests :
        /\ req[r].attempts = 3
        /\ req[r].outstanding # {}
        /\ ~IsTimeout(req[r].cntlstatus_)
        /\ Retryable(req[r])
        /\ req[r].nextTimeoutMS > chunkserverRPCTimeoutMS

(***************************************************************************)
(* C33: as long as no Decrement was called before the Increment it         *)
(* matches, the count of the throttle is the number of calls of Increment  *)
(* minus the number of calls of Decrement, in every interleaving of the    *)
(* calls; it is not negative and has not wrapped around.                   *)
(***************************************************************************)
C33_CountIsIncrementsMinusDecrements ==
    ~throttle.unmatched =>
        /\ throttle.inflightRequestCount_ = throttle.incs - throttle.decs
        /\ throttle.inflightRequestCount_ >= 0
        /\ throttle.inflightRequestCount_ <= throttle.incs

\* Increments and Decrements were interleaved, a Decrement being the last,
\* and the count is above the maximum of the throttle
C33_Witness ==
    /\ ~throttle.unmatched
    /\ throttle.called = "Decrement"
    /\ throttle.incs = MaxThrottleCalls
    /\ throttle.decs = 1
    /\ throttle.maxInflightRequest_ < throttle.inflightRequestCount_
    /\ throttle.inflightRequestCount_ = MaxThrottleCalls - 1


====
